---------------------------- MODULE Spec2Model ----------------------------
(***************************************************************************)
(* Real-time data ingestion and fan-out broadcast core of the dashboard    *)
(* servers (app.py, generic_dashboard.py), the simulation producer of      *)
(* websocket_server.py and the normalizer of data_processor.py.            *)
(*                                                                         *)
(* The shared stream buffer is the Python list bound to current_data.  A   *)
(* list is a heap object: extend()/append() change the object in place,    *)
(* while  current_data = current_data[-1000:]  binds the name to a NEW     *)
(* list and leaves the old object as it was.  A thread that loaded the     *)
(* name before the rebinding keeps the old object.  The model tracks this  *)
(* with references that are either live (they denote the object currently  *)
(* bound to current_data) or frozen (they denote an object that was        *)
(* unbound, with the contents it had at that moment).                      *)
(***************************************************************************)
EXTENDS Naturals, Integers, Sequences, FiniteSets, TLC

\* max_records: the cap of the stream buffer.  The source uses 1000; the
\* model scales it down so that TLC can fill the buffer.
MaxRecords == 2

\* Largest list an upload produces (larger than the cap: oversized batch).
MaxBatch == 3

\* Number of producer requests (uploads, direct calls) in one behaviour of
\* app.py, and of generic_dashboard.py (which runs more threads).
MaxRequests == 3
MaxGenericRequests == 2

\* Uploads in one behaviour of run_websocket.py (app.py next to the
\* simulation thread).
MaxRunRequests == 1

\* Records one simulation thread generates in one behaviour.
MaxSimRecords == 3

\* Calls of start_simulation / stop_simulation made on a running
\* WebSocketServer in one behaviour.
MaxApiCalls == 2

\* The entry points: app.py, generic_dashboard.py, run_websocket.py (app.py
\* plus a WebSocketServer that only simulates) and websocket_server.py.
Servers == {"app", "generic", "run_websocket", "websocket_server", "database"}
Producers == {"p1", "p2"}
Readers == {"r1"}
Subs == {"s1", "s2"}
SimThreads == {"t1", "t2"}
Threads == Producers \cup Readers \cup Subs
NoThread == "none"

\* The client of the behaviours with one socket client.
OneSub == {"s1"}

VARIABLES
    server,               \* which server module runs: app.py or generic_dashboard.py
    current_data,         \* contents of the list object bound to current_data
    data_lock,            \* the thread holding data_lock, or NoThread
    last_processed_data,  \* DataProcessor.last_processed_data (<<>> models None)
    has_processed,        \* last_processed_data is not None
    pc,                   \* position of every thread in its handler
    data_list,            \* producer: the argument of add_data_to_stream
    ref,                  \* thread: the list object loaded for the 'data' key
    total,                \* thread: the evaluated len(current_data)
    op,                   \* producer: the operation it runs ("upload" or "direct")
    resp,                 \* producer: the outcome of the operation
    reply,                \* reader: the body returned by /api/data or the Dash store
    clients,              \* the connected socket clients
    inbox,                \* per client: the latest 'new_data' payload sent to it
    late,                 \* history, client: the buffer held records when it connected
    log,                  \* history: every record ever put into the buffer, in order
    requests,             \* history: number of producer requests started
    acq,                  \* history, producer: the buffer when it took the lock
    sent,                 \* history, producer: broadcasts made by the current upload
    failed,               \* history, producer: process_file raised in the current upload
    payload_list,         \* WebSocketServer.payload_list
    is_running,           \* WebSocketServer.is_running
    main_pc,              \* WebSocketServer start-up: "load", "start", then "serve"
    sim_pc,               \* position of every simulate_data_stream thread
    counter,              \* simulate_data_stream: the local counter
    sliced,               \* add_data: the evaluated self.payload_list[-1000:]
    frame,                \* add_data: the DataFrame built from payload_list
    api_calls,            \* history: start/stop_simulation calls made while serving
    sim_err,              \* history, thread: an error was raised in this iteration
    stopped,              \* history, thread: stop_simulation was called in its lifetime
    after_stop,           \* history, thread: records it appended since that call
    file,                 \* DataProcessor: the content of the file being processed
    header,               \* DataProcessor: the column names of that file, in order
    np_pc,                \* DataProcessor: position inside process_file
    df,                   \* DataProcessor: the DataFrame df of the running call
    result,               \* DataProcessor: what process_file returned or raised
    tried,                \* history: the encodings read_csv was called with, in order
    clock,                \* datetime.now(), counted in calls
    runs,                 \* history: the results of the completed process_file calls
    db_table,             \* the committed rows of the table data_records
    db_call,              \* per caller: its running save_data_to_db call and session
    db_calls,             \* history: number of save_data_to_db calls made
    db_done               \* history: the save_data_to_db calls that ended

vars == <<server, current_data, data_lock, last_processed_data, has_processed, pc,
          data_list, ref, total, op, resp, reply, clients, inbox, log, requests,
          acq, sent, failed, late, payload_list, is_running, main_pc, sim_pc,
          counter, sliced, frame, api_calls, sim_err, stopped, after_stop, file,
          header, np_pc, df, result, tried, clock, runs, db_table, db_call,
          db_calls, db_done>>

--------------------------------------------------------------------------
\* Helpers

\* s[-n:] for n > 0: the last n elements (the whole list if it is shorter).
LastN(s, n) ==
    IF Len(s) <= n THEN s ELSE SubSeq(s, Len(s) - n + 1, Len(s))

\* The records of the k-th processed file: record j of upload k is <<k, j>>.
MakeRecords(k, n) == [j \in 1..n |-> <<k, j>>]

Range(s) == {s[i] : i \in 1..Len(s)}

\* The argument of add_data_to_stream: a list of records or one record (a dict).
\* id is the number of the request that produced it.
NoData == [id |-> 0, isList |-> TRUE, recs |-> <<>>]
ListData(k, n) == [id |-> k, isList |-> TRUE, recs |-> MakeRecords(k, n)]
SingleData(k) == [id |-> k, isList |-> FALSE, recs |-> MakeRecords(k, 1)]

\* What a reader returned: the records, the record count, and (history) the log
\* at the moment the body was built.
NoReply == [kind |-> "none", data |-> <<>>, total |-> 0, h_log |-> <<>>]

\* A reference to the list currently bound to current_data.
LiveRef == [live |-> TRUE, val |-> <<>>]
NoRef == [live |-> FALSE, val |-> <<>>]

\* The contents of the list a reference denotes, read now.
Deref(r) == IF r.live THEN current_data ELSE r.val

\* The references after current_data is rebound: every live one keeps the old
\* object, whose contents stay what they are at the rebinding.
Frozen(old) ==
    [t \in Threads |-> IF ref[t].live THEN [live |-> FALSE, val |-> old] ELSE ref[t]]

\* A client that was sent nothing since it connected.
NoMsg == [src |-> "none", data |-> <<>>]

\* socketio.emit(...) without a room: one message to every connected client.
\* The client keeps the latest payload (dashboard.py on_new_data).
Broadcast(msg) ==
    [s \in Subs |-> IF s \in clients THEN msg ELSE inbox[s]]

\* flask_socketio.emit(...) inside an event handler: to the requesting client.
SendTo(s, msg) == [inbox EXCEPT ![s] = msg]

\* process_file has not returned or raised.
NoResult == [status |-> "none"]

\* No DataFrame was built.
NoFrame == [nrows |-> 0, cols |-> <<>>, meta |-> FALSE, processed_at |-> 0,
            record_id |-> <<>>]

--------------------------------------------------------------------------
\* The servers before any request; no file is being processed.
InitStream ==
    /\ server \in Servers
    /\ current_data = <<>>
    /\ data_lock = NoThread
    /\ last_processed_data = <<>>
    /\ has_processed = FALSE
    /\ pc = [t \in Threads |-> IF t \in Subs THEN "out" ELSE "idle"]
    /\ data_list = [p \in Producers |-> NoData]
    /\ op = [p \in Producers |-> "none"]
    /\ ref = [t \in Threads |-> NoRef]
    /\ total = [t \in Threads |-> 0]
    /\ resp = [p \in Producers |-> "none"]
    /\ reply = [r \in Readers |-> NoReply]
    /\ clients = {}
    /\ inbox = [s \in Subs |-> NoMsg]
    /\ late = [s \in Subs |-> FALSE]
    /\ log = <<>>
    /\ requests = 0
    /\ acq = [p \in Producers |-> <<>>]
    /\ sent = [p \in Producers |-> 0]
    /\ failed = [p \in Producers |-> FALSE]
    /\ payload_list = <<>>
    /\ is_running = FALSE
    /\ main_pc = "load"
    /\ sim_pc = [t \in SimThreads |-> "unborn"]
    /\ counter = [t \in SimThreads |-> 0]
    /\ sliced = [t \in SimThreads |-> <<>>]
    /\ frame = [t \in SimThreads |-> <<>>]
    /\ api_calls = 0
    /\ sim_err = [t \in SimThreads |-> FALSE]
    /\ stopped = [t \in SimThreads |-> FALSE]
    /\ after_stop = [t \in SimThreads |-> 0]
    /\ df = NoFrame
    /\ result = NoResult
    /\ tried = <<>>
    /\ clock = 0
    /\ runs = <<>>
    /\ db_table = <<>>
    /\ db_call = [c \in {"upload", "sim"} |-> [pc |-> "idle", id |-> 0, batch |-> <<>>,
                     added |-> 0, pending |-> <<>>, open |-> FALSE, exc |-> FALSE,
                     count |-> 0]]
    /\ db_calls = 0
    /\ db_done = {}

Init ==
    /\ InitStream
    /\ file = <<>>
    /\ header = <<>>
    /\ np_pc = "none"

--------------------------------------------------------------------------
\* Producers: the upload handler (app.py upload_data, generic_dashboard.py
\* upload) and the direct callers of add_data_to_stream (sample route,
\* simulation thread).

\* app.py serves the sockets and the uploads, alone or under run_websocket.py.
AppServed == server \in {"app", "run_websocket"}

RequestBudget ==
    CASE server = "app" -> MaxRequests
      [] server = "generic" -> MaxGenericRequests
      [] OTHER -> MaxRunRequests

CanStart(p) ==
    /\ server # "websocket_server"
    /\ pc[p] \in {"idle", "done"}
    /\ requests < RequestBudget

\* A request starts: the history of the previous one is dropped.  The locals
\* of a handler (data_list, the loaded list, the length) end with it.
StartVars(p, kind, d, out, nextpc) ==
    /\ requests' = requests + 1
    /\ op' = [op EXCEPT ![p] = kind]
    /\ data_list' = [data_list EXCEPT ![p] = d]
    /\ resp' = [resp EXCEPT ![p] = out]
    /\ pc' = [pc EXCEPT ![p] = nextpc]
    /\ acq' = [acq EXCEPT ![p] = <<>>]
    /\ sent' = [sent EXCEPT ![p] = 0]

\* upload: no file part, empty file name or extension not allowed: 400.
UploadRejected(p) ==
    /\ CanStart(p)
    /\ StartVars(p, "upload", NoData, "rejected", "done")
    /\ failed' = [failed EXCEPT ![p] = FALSE]
    /\ UNCHANGED <<server, current_data, data_lock, last_processed_data, has_processed,
                   ref, total, reply, clients, inbox, log, late, payload_list,
                   is_running, main_pc, sim_pc, counter, sliced, frame, api_calls,
                   sim_err, stopped, after_stop, file, header, np_pc, df, result, tried,
                   clock, runs, db_table, db_call, db_calls, db_done>>

\* Mutant of UploadProcessFails: the exception is swallowed and the handler
\* goes on to add_data_to_stream with an empty list.
UploadProcessFailsSwallowed(p) ==
    /\ CanStart(p)
    /\ StartVars(p, "upload", ListData(requests + 1, 0), "none", "lock")
    /\ failed' = [failed EXCEPT ![p] = TRUE]
    /\ UNCHANGED <<server, current_data, data_lock, last_processed_data, has_processed,
                   ref, total, reply, clients, inbox, log, late, payload_list,
                   is_running, main_pc, sim_pc, counter, sliced, frame, api_calls,
                   sim_err, stopped, after_stop, file, header, np_pc, df, result, tried,
                   clock, runs, db_table, db_call, db_calls, db_done>>

\* upload: process_file raises; the except clause answers 500.
UploadProcessFails(p) ==
    /\ CanStart(p)
    /\ StartVars(p, "upload", NoData, "error", "done")
    /\ failed' = [failed EXCEPT ![p] = TRUE]
    /\ UNCHANGED <<server, current_data, data_lock, last_processed_data, has_processed,
                   ref, total, reply, clients, inbox, log, late, payload_list,
                   is_running, main_pc, sim_pc, counter, sliced, frame, api_calls,
                   sim_err, stopped, after_stop, file, header, np_pc, df, result, tried,
                   clock, runs, db_table, db_call, db_calls, db_done>>

\* upload: process_file returns n records (app.py: DataProcessor also caches
\* them in last_processed_data); add_data_to_stream is called with the list.
UploadProcessOk(p, n) ==
    /\ CanStart(p)
    /\ StartVars(p, "upload", ListData(requests + 1, n), "none", "lock")
    /\ failed' = [failed EXCEPT ![p] = FALSE]
    /\ IF AppServed
         THEN /\ last_processed_data' = MakeRecords(requests + 1, n)
              /\ has_processed' = TRUE
         ELSE UNCHANGED <<last_processed_data, has_processed, late>>
    /\ UNCHANGED <<server, current_data, data_lock, ref, total, reply, clients, inbox,
                   log, late, payload_list, is_running, main_pc, sim_pc, counter, sliced,
                   frame, api_calls, sim_err, stopped, after_stop, file, header, np_pc,
                   df, result, tried, clock, runs, db_table, db_call, db_calls, db_done>>

\* A caller that hands add_data_to_stream one record instead of a list.
DirectCall(p) ==
    /\ CanStart(p)
    /\ StartVars(p, "direct", SingleData(requests + 1), "none", "lock")
    /\ failed' = [failed EXCEPT ![p] = FALSE]
    /\ UNCHANGED <<server, current_data, data_lock, last_processed_data, has_processed,
                   ref, total, reply, clients, inbox, log, late, payload_list,
                   is_running, main_pc, sim_pc, counter, sliced, frame, api_calls,
                   sim_err, stopped, after_stop, file, header, np_pc, df, result, tried,
                   clock, runs, db_table, db_call, db_calls, db_done>>

\* Mutant of Acquire: the with block is entered without waiting for the lock.
AcquireNoWait(p) ==
    /\ pc[p] = "lock"
    /\ data_lock' = p
    /\ acq' = [acq EXCEPT ![p] = current_data]
    /\ pc' = [pc EXCEPT ![p] = "extend"]
    /\ UNCHANGED <<server, current_data, last_processed_data, has_processed, data_list,
                   ref, total, op, resp, reply, clients, inbox, log, requests, sent,
                   failed, late, payload_list, is_running, main_pc, sim_pc, counter,
                   sliced, frame, api_calls, sim_err, stopped, after_stop, file, header,
                   np_pc, df, result, tried, clock, runs, db_table, db_call, db_calls,
                   db_done>>

\* with data_lock:  (enter)
Acquire(p) ==
    /\ pc[p] = "lock"
    /\ data_lock = NoThread
    /\ data_lock' = p
    /\ acq' = [acq EXCEPT ![p] = current_data]
    /\ pc' = [pc EXCEPT ![p] = "extend"]
    /\ UNCHANGED <<server, current_data, last_processed_data, has_processed, data_list,
                   ref, total, op, resp, reply, clients, inbox, log, requests, sent,
                   failed, late, payload_list, is_running, main_pc, sim_pc, counter,
                   sliced, frame, api_calls, sim_err, stopped, after_stop, file, header,
                   np_pc, df, result, tried, clock, runs, db_table, db_call, db_calls,
                   db_done>>

\* current_data.extend(data_list) / current_data.append(data_list): in place.
Extended(buf, d) == IF d.isList THEN buf \o d.recs ELSE Append(buf, d.recs[1])

Extend(p) ==
    /\ pc[p] = "extend"
    /\ current_data' = Extended(current_data, data_list[p])
    /\ log' = log \o data_list[p].recs
    /\ pc' = [pc EXCEPT ![p] = "trunc"]
    /\ UNCHANGED <<server, data_lock, last_processed_data, has_processed, data_list, ref,
                   total, op, resp, reply, clients, inbox, requests, acq, sent, failed,
                   late, payload_list, is_running, main_pc, sim_pc, counter, sliced,
                   frame, api_calls, sim_err, stopped, after_stop, file, header, np_pc,
                   df, result, tried, clock, runs, db_table, db_call, db_calls, db_done>>

\* Mutant of NeedsTruncate: the comparison is off by one.
NeedsTruncateOffByOne(buf) == Len(buf) > MaxRecords + 1

\* Mutant of Truncated: current_data[:1000], the oldest records are kept.
TruncatedHead(buf) == SubSeq(buf, 1, MaxRecords)

\* if len(current_data) > 1000: current_data = current_data[-1000:]
NeedsTruncate(buf) == Len(buf) > MaxRecords

Truncated(buf) == LastN(buf, MaxRecords)

Truncate(p) ==
    /\ pc[p] = "trunc"
    /\ IF NeedsTruncate(current_data)
         THEN /\ current_data' = Truncated(current_data)
              /\ ref' = Frozen(current_data)
         ELSE UNCHANGED <<current_data, ref, late>>
    /\ pc' = [pc EXCEPT ![p] = "unlock"]
    /\ UNCHANGED <<server, data_lock, last_processed_data, has_processed, data_list,
                   total, op, resp, reply, clients, inbox, log, requests, acq, sent,
                   failed, late, payload_list, is_running, main_pc, sim_pc, counter,
                   sliced, frame, api_calls, sim_err, stopped, after_stop, file, header,
                   np_pc, df, result, tried, clock, runs, db_table, db_call, db_calls,
                   db_done>>

\* Mutant of Release: add_data_to_stream returns without broadcasting.
ReleaseNoEmit(p) ==
    /\ pc[p] = "unlock"
    /\ data_lock = p
    /\ data_lock' = NoThread
    /\ acq' = [acq EXCEPT ![p] = <<>>]
    /\ data_list' = [data_list EXCEPT ![p] = NoData]
    /\ resp' = [resp EXCEPT ![p] = "ok"]
    /\ pc' = [pc EXCEPT ![p] = "done"]
    /\ UNCHANGED <<server, current_data, last_processed_data, has_processed, ref, total,
                   op, reply, clients, inbox, log, requests, sent, failed, late,
                   payload_list, is_running, main_pc, sim_pc, counter, sliced, frame,
                   api_calls, sim_err, stopped, after_stop, file, header, np_pc, df,
                   result, tried, clock, runs, db_table, db_call, db_calls, db_done>>

\* with data_lock:  (exit)
Release(p) ==
    /\ pc[p] = "unlock"
    /\ data_lock = p
    /\ data_lock' = NoThread
    /\ acq' = [acq EXCEPT ![p] = <<>>]
    /\ pc' = [pc EXCEPT ![p] = "emit_data"]
    /\ UNCHANGED <<server, current_data, last_processed_data, has_processed, data_list,
                   ref, total, op, resp, reply, clients, inbox, log, requests, sent,
                   failed, late, payload_list, is_running, main_pc, sim_pc, counter,
                   sliced, frame, api_calls, sim_err, stopped, after_stop, file, header,
                   np_pc, df, result, tried, clock, runs, db_table, db_call, db_calls,
                   db_done>>

\* socketio.emit('new_data', {'data': current_data, ...: the name is loaded.
EmitLoadData(p) ==
    /\ pc[p] = "emit_data"
    /\ ref' = [ref EXCEPT ![p] = LiveRef]
    /\ pc' = [pc EXCEPT ![p] = "emit_len"]
    /\ UNCHANGED <<server, current_data, data_lock, last_processed_data, has_processed,
                   data_list, total, op, resp, reply, clients, inbox, log, requests, acq,
                   sent, failed, late, payload_list, is_running, main_pc, sim_pc,
                   counter, sliced, frame, api_calls, sim_err, stopped, after_stop, file,
                   header, np_pc, df, result, tried, clock, runs, db_table, db_call,
                   db_calls, db_done>>

\* 'total_records': len(current_data): the name is loaded again and measured.
EmitLoadLen(p) ==
    /\ pc[p] = "emit_len"
    /\ total' = [total EXCEPT ![p] = Len(current_data)]
    /\ pc' = [pc EXCEPT ![p] = "emit_send"]
    /\ UNCHANGED <<server, current_data, data_lock, last_processed_data, has_processed,
                   data_list, ref, op, resp, reply, clients, inbox, log, requests, acq,
                   sent, failed, late, payload_list, is_running, main_pc, sim_pc,
                   counter, sliced, frame, api_calls, sim_err, stopped, after_stop, file,
                   header, np_pc, df, result, tried, clock, runs, db_table, db_call,
                   db_calls, db_done>>

\* The payload socketio.emit encodes: the list is read when it is encoded.
StreamPayload(p) ==
    [src |-> "stream", data |-> Deref(ref[p]), total |-> total[p]]

\* socketio.emit(...) encodes the payload and hands it to every client; the
\* caller then returns (upload: 200 success).
EmitSend(p) ==
    /\ pc[p] = "emit_send"
    /\ inbox' = Broadcast(StreamPayload(p))
    /\ sent' = [sent EXCEPT ![p] = @ + 1]
    /\ ref' = [ref EXCEPT ![p] = NoRef]
    /\ total' = [total EXCEPT ![p] = 0]
    /\ data_list' = [data_list EXCEPT ![p] = NoData]
    /\ resp' = [resp EXCEPT ![p] = "ok"]
    /\ pc' = [pc EXCEPT ![p] = "done"]
    /\ UNCHANGED <<server, current_data, data_lock, last_processed_data, has_processed,
                   op, reply, clients, log, requests, acq, failed, late, payload_list,
                   is_running, main_pc, sim_pc, counter, sliced, frame, api_calls,
                   sim_err, stopped, after_stop, file, header, np_pc, df, result, tried,
                   clock, runs, db_table, db_call, db_calls, db_done>>

\* socketio.emit(...) raises: the exception leaves add_data_to_stream; the
\* upload handler's except clause answers 500.
EmitRaises(p) ==
    /\ pc[p] = "emit_send"
    /\ ref' = [ref EXCEPT ![p] = NoRef]
    /\ total' = [total EXCEPT ![p] = 0]
    /\ data_list' = [data_list EXCEPT ![p] = NoData]
    /\ resp' = [resp EXCEPT ![p] = "error"]
    /\ pc' = [pc EXCEPT ![p] = "done"]
    /\ UNCHANGED <<server, current_data, data_lock, last_processed_data, has_processed,
                   op, reply, clients, inbox, log, requests, acq, sent, failed, late,
                   payload_list, is_running, main_pc, sim_pc, counter, sliced, frame,
                   api_calls, sim_err, stopped, after_stop, file, header, np_pc, df,
                   result, tried, clock, runs, db_table, db_call, db_calls, db_done>>

--------------------------------------------------------------------------
\* Readers (generic_dashboard.py): the /api/data route and the Dash data store.

\* Mutant of ReaderAcquire: the reader does not wait for the lock.
ReaderAcquireNoWait(r, kind) ==
    /\ server = "generic"
    /\ pc[r] = "idle"
    /\ data_lock' = r
    /\ pc' = [pc EXCEPT ![r] = IF kind = "get_data" THEN "gd_data" ELSE "ds_copy"]
    /\ UNCHANGED <<server, current_data, last_processed_data, has_processed, data_list,
                   ref, total, op, resp, reply, clients, inbox, log, requests, acq, sent,
                   failed, late, payload_list, is_running, main_pc, sim_pc, counter,
                   sliced, frame, api_calls, sim_err, stopped, after_stop, file, header,
                   np_pc, df, result, tried, clock, runs, db_table, db_call, db_calls,
                   db_done>>

\* with self.data_lock:  (enter), in get_data or in update_data_store
ReaderAcquire(r, kind) ==
    /\ server = "generic"
    /\ pc[r] = "idle"
    /\ data_lock = NoThread
    /\ data_lock' = r
    /\ pc' = [pc EXCEPT ![r] = IF kind = "get_data" THEN "gd_data" ELSE "ds_copy"]
    /\ UNCHANGED <<server, current_data, last_processed_data, has_processed, data_list,
                   ref, total, op, resp, reply, clients, inbox, log, requests, acq, sent,
                   failed, late, payload_list, is_running, main_pc, sim_pc, counter,
                   sliced, frame, api_calls, sim_err, stopped, after_stop, file, header,
                   np_pc, df, result, tried, clock, runs, db_table, db_call, db_calls,
                   db_done>>

\* get_data: 'data': self.current_data
GetDataLoad(r) ==
    /\ pc[r] = "gd_data"
    /\ ref' = [ref EXCEPT ![r] = LiveRef]
    /\ pc' = [pc EXCEPT ![r] = "gd_len"]
    /\ UNCHANGED <<server, current_data, data_lock, last_processed_data, has_processed,
                   data_list, total, op, resp, reply, clients, inbox, log, requests, acq,
                   sent, failed, late, payload_list, is_running, main_pc, sim_pc,
                   counter, sliced, frame, api_calls, sim_err, stopped, after_stop, file,
                   header, np_pc, df, result, tried, clock, runs, db_table, db_call,
                   db_calls, db_done>>

\* get_data: 'total_records': len(self.current_data)
GetDataLen(r) ==
    /\ pc[r] = "gd_len"
    /\ total' = [total EXCEPT ![r] = Len(current_data)]
    /\ pc' = [pc EXCEPT ![r] = "gd_json"]
    /\ UNCHANGED <<server, current_data, data_lock, last_processed_data, has_processed,
                   data_list, ref, op, resp, reply, clients, inbox, log, requests, acq,
                   sent, failed, late, payload_list, is_running, main_pc, sim_pc,
                   counter, sliced, frame, api_calls, sim_err, stopped, after_stop, file,
                   header, np_pc, df, result, tried, clock, runs, db_table, db_call,
                   db_calls, db_done>>

\* get_data: jsonify(...) encodes the body, still inside the with block.
GetDataJsonify(r) ==
    /\ pc[r] = "gd_json"
    /\ reply' = [reply EXCEPT ![r] = [kind |-> "get_data", data |-> Deref(ref[r]),
                                      total |-> total[r], h_log |-> log]]
    /\ ref' = [ref EXCEPT ![r] = NoRef]
    /\ total' = [total EXCEPT ![r] = 0]
    /\ pc' = [pc EXCEPT ![r] = "r_unlock"]
    /\ UNCHANGED <<server, current_data, data_lock, last_processed_data, has_processed,
                   data_list, op, resp, clients, inbox, log, requests, acq, sent, failed,
                   late, payload_list, is_running, main_pc, sim_pc, counter, sliced,
                   frame, api_calls, sim_err, stopped, after_stop, file, header, np_pc,
                   df, result, tried, clock, runs, db_table, db_call, db_calls, db_done>>

\* update_data_store: data = self.current_data.copy(); len(data) goes into
\* the status line.
DataStoreCopy(r) ==
    /\ pc[r] = "ds_copy"
    /\ reply' = [reply EXCEPT ![r] = [kind |-> "data_store", data |-> current_data,
                                      total |-> Len(current_data), h_log |-> log]]
    /\ pc' = [pc EXCEPT ![r] = "r_unlock"]
    /\ UNCHANGED <<server, current_data, data_lock, last_processed_data, has_processed,
                   data_list, ref, total, op, resp, clients, inbox, log, requests, acq,
                   sent, failed, late, payload_list, is_running, main_pc, sim_pc,
                   counter, sliced, frame, api_calls, sim_err, stopped, after_stop, file,
                   header, np_pc, df, result, tried, clock, runs, db_table, db_call,
                   db_calls, db_done>>

\* with self.data_lock:  (exit); the body goes to the HTTP client.
ReaderRelease(r) ==
    /\ pc[r] = "r_unlock"
    /\ data_lock = r
    /\ data_lock' = NoThread
    /\ reply' = [reply EXCEPT ![r] = NoReply]
    /\ pc' = [pc EXCEPT ![r] = "idle"]
    /\ UNCHANGED <<server, current_data, last_processed_data, has_processed, data_list,
                   ref, total, op, resp, clients, inbox, log, requests, acq, sent,
                   failed, late, payload_list, is_running, main_pc, sim_pc, counter,
                   sliced, frame, api_calls, sim_err, stopped, after_stop, file, header,
                   np_pc, df, result, tried, clock, runs, db_table, db_call, db_calls,
                   db_done>>

--------------------------------------------------------------------------
\* Socket clients and the event handlers of the server.

\* generic_dashboard.py: the payload of handle_connect / handle_data_request,
\* built and emitted inside the with block.
HandlerPayload(kind) ==
    [src |-> kind, data |-> current_data, total |-> Len(current_data)]

\* app.py handle_data_request: the cached DataFrame, no total_records key.
CachedPayload == [src |-> "cached", data |-> last_processed_data]

\* A client connects.  app.py handle_connect only logs; generic_dashboard.py
\* handle_connect goes on to take the lock.
Connect(s) ==
    /\ pc[s] = "out"
    /\ clients' = clients \cup {s}
    /\ late' = [late EXCEPT ![s] = (current_data # <<>>)]
    /\ pc' = [pc EXCEPT ![s] = IF server = "generic" THEN "connect_lock" ELSE "in"]
    /\ UNCHANGED <<server, current_data, data_lock, last_processed_data, has_processed,
                   data_list, ref, total, op, resp, reply, inbox, log, requests, acq,
                   sent, failed, payload_list, is_running, main_pc, sim_pc, counter,
                   sliced, frame, api_calls, sim_err, stopped, after_stop, file, header,
                   np_pc, df, result, tried, clock, runs, db_table, db_call, db_calls,
                   db_done>>

\* A client disconnects; handle_disconnect only logs.
Disconnect(s) ==
    /\ pc[s] = "in"
    /\ clients' = clients \ {s}
    /\ inbox' = [inbox EXCEPT ![s] = NoMsg]
    /\ late' = [late EXCEPT ![s] = FALSE]
    /\ pc' = [pc EXCEPT ![s] = "out"]
    /\ UNCHANGED <<server, current_data, data_lock, last_processed_data, has_processed,
                   data_list, ref, total, op, resp, reply, log, requests, acq, sent,
                   failed, payload_list, is_running, main_pc, sim_pc, counter, sliced,
                   frame, api_calls, sim_err, stopped, after_stop, file, header, np_pc,
                   df, result, tried, clock, runs, db_table, db_call, db_calls, db_done>>

\* generic_dashboard.py handle_connect / handle_data_request: with
\* self.data_lock:  (enter)
HandlerAcquire(s) ==
    /\ pc[s] \in {"connect_lock", "request_lock"}
    /\ data_lock = NoThread
    /\ data_lock' = s
    /\ pc' = [pc EXCEPT ![s] = IF pc[s] = "connect_lock" THEN "connect_emit"
                                                         ELSE "request_emit"]
    /\ UNCHANGED <<server, current_data, last_processed_data, has_processed, data_list,
                   ref, total, op, resp, reply, clients, inbox, log, requests, acq, sent,
                   failed, late, payload_list, is_running, main_pc, sim_pc, counter,
                   sliced, frame, api_calls, sim_err, stopped, after_stop, file, header,
                   np_pc, df, result, tried, clock, runs, db_table, db_call, db_calls,
                   db_done>>

\* generic_dashboard.py handle_connect: emit('new_data', ...) to the client
\* that connected, inside the with block.
HandleConnectEmit(s) ==
    /\ pc[s] = "connect_emit"
    /\ inbox' = SendTo(s, HandlerPayload("connect"))
    /\ pc' = [pc EXCEPT ![s] = "h_unlock"]
    /\ UNCHANGED <<server, current_data, data_lock, last_processed_data, has_processed,
                   data_list, ref, total, op, resp, reply, clients, log, requests, acq,
                   sent, failed, late, payload_list, is_running, main_pc, sim_pc,
                   counter, sliced, frame, api_calls, sim_err, stopped, after_stop, file,
                   header, np_pc, df, result, tried, clock, runs, db_table, db_call,
                   db_calls, db_done>>

\* generic_dashboard.py handle_data_request: emit('new_data', ...) to the
\* client that asked, inside the with block.
HandleRequestEmit(s) ==
    /\ pc[s] = "request_emit"
    /\ inbox' = SendTo(s, HandlerPayload("request"))
    /\ pc' = [pc EXCEPT ![s] = "h_unlock"]
    /\ UNCHANGED <<server, current_data, data_lock, last_processed_data, has_processed,
                   data_list, ref, total, op, resp, reply, clients, log, requests, acq,
                   sent, failed, late, payload_list, is_running, main_pc, sim_pc,
                   counter, sliced, frame, api_calls, sim_err, stopped, after_stop, file,
                   header, np_pc, df, result, tried, clock, runs, db_table, db_call,
                   db_calls, db_done>>

\* with self.data_lock:  (exit)
HandlerRelease(s) ==
    /\ pc[s] = "h_unlock"
    /\ data_lock = s
    /\ data_lock' = NoThread
    /\ pc' = [pc EXCEPT ![s] = "in"]
    /\ UNCHANGED <<server, current_data, last_processed_data, has_processed, data_list,
                   ref, total, op, resp, reply, clients, inbox, log, requests, acq, sent,
                   failed, late, payload_list, is_running, main_pc, sim_pc, counter,
                   sliced, frame, api_calls, sim_err, stopped, after_stop, file, header,
                   np_pc, df, result, tried, clock, runs, db_table, db_call, db_calls,
                   db_done>>

\* A connected client raises request_data on generic_dashboard.py.
RequestData(s) ==
    /\ server = "generic"
    /\ pc[s] = "in"
    /\ pc' = [pc EXCEPT ![s] = "request_lock"]
    /\ UNCHANGED <<server, current_data, data_lock, last_processed_data, has_processed,
                   data_list, ref, total, op, resp, reply, clients, inbox, log, requests,
                   acq, sent, failed, late, payload_list, is_running, main_pc, sim_pc,
                   counter, sliced, frame, api_calls, sim_err, stopped, after_stop, file,
                   header, np_pc, df, result, tried, clock, runs, db_table, db_call,
                   db_calls, db_done>>

\* Mutant of AppHandleDataRequest: the reply goes to the client that asked.
AppHandleDataRequestToSender(s) ==
    /\ AppServed
    /\ pc[s] = "in"
    /\ inbox' = IF has_processed THEN SendTo(s, CachedPayload) ELSE inbox
    /\ UNCHANGED <<server, current_data, data_lock, last_processed_data, has_processed,
                   pc, data_list, ref, total, op, resp, reply, clients, log, requests,
                   acq, sent, failed, late, payload_list, is_running, main_pc, sim_pc,
                   counter, sliced, frame, api_calls, sim_err, stopped, after_stop, file,
                   header, np_pc, df, result, tried, clock, runs, db_table, db_call,
                   db_calls, db_done>>

\* app.py handle_data_request: if a file was processed, socketio.emit sends
\* the cached records to every connected client; otherwise nothing is sent.
AppHandleDataRequest(s) ==
    /\ AppServed
    /\ pc[s] = "in"
    /\ inbox' = IF has_processed THEN Broadcast(CachedPayload) ELSE inbox
    /\ UNCHANGED <<server, current_data, data_lock, last_processed_data, has_processed,
                   pc, data_list, ref, total, op, resp, reply, clients, log, requests,
                   acq, sent, failed, late, payload_list, is_running, main_pc, sim_pc,
                   counter, sliced, frame, api_calls, sim_err, stopped, after_stop, file,
                   header, np_pc, df, result, tried, clock, runs, db_table, db_call,
                   db_calls, db_done>>

--------------------------------------------------------------------------
BatchSizes == 0..MaxBatch

\* The steps of a producer thread, the same code in both servers.
ProducerNext ==
    \/ \E p \in Producers : UploadRejected(p)
    \/ \E p \in Producers : UploadProcessFails(p)
    \/ \E p \in Producers : \E n \in BatchSizes : UploadProcessOk(p, n)
    \/ \E p \in Producers : DirectCall(p)
    \/ \E p \in Producers : Acquire(p)
    \/ \E p \in Producers : Extend(p)
    \/ \E p \in Producers : Truncate(p)
    \/ \E p \in Producers : Release(p)
    \/ \E p \in Producers : EmitLoadData(p)
    \/ \E p \in Producers : EmitLoadLen(p)
    \/ \E p \in Producers : EmitSend(p)
    \/ \E p \in Producers : EmitRaises(p)

\* app.py: producers and socket clients.
NextApp ==
    \/ ProducerNext
    \/ \E s \in OneSub : Connect(s)
    \/ \E s \in OneSub : Disconnect(s)
    \/ \E s \in OneSub : AppHandleDataRequest(s)

\* generic_dashboard.py: producers, readers and socket clients.
NextGeneric ==
    \/ ProducerNext
    \/ \E r \in Readers : \E kind \in {"get_data", "data_store"} : ReaderAcquire(r, kind)
    \/ \E r \in Readers : GetDataLoad(r)
    \/ \E r \in Readers : GetDataLen(r)
    \/ \E r \in Readers : GetDataJsonify(r)
    \/ \E r \in Readers : DataStoreCopy(r)
    \/ \E r \in Readers : ReaderRelease(r)
    \/ \E s \in OneSub : Connect(s)
    \/ \E s \in OneSub : Disconnect(s)
    \/ \E s \in OneSub : HandlerAcquire(s)
    \/ \E s \in OneSub : HandleConnectEmit(s)
    \/ \E s \in OneSub : HandleRequestEmit(s)
    \/ \E s \in OneSub : HandlerRelease(s)
    \/ \E s \in OneSub : RequestData(s)

InitApp == Init /\ server = "app"

InitGeneric == Init /\ server = "generic"

SpecApp == InitApp /\ [][NextApp]_vars

SpecGeneric == InitGeneric /\ [][NextGeneric]_vars

--------------------------------------------------------------------------
\* WebSocketServer (websocket_server.py): the buffer payload_list, the
\* simulation thread and add_data.  run_websocket.py creates one instance next
\* to app.py, loads the sample file into it and starts its simulation; the
\* instance is never served, so its SocketIO hub has no client.

\* The records of sample_data/sample_data.json and of a simulation thread.
SampleRecords(n) == [j \in 1..n |-> <<200, j>>]

SimTag == [t \in SimThreads |-> IF t = "t1" THEN 101 ELSE 102]

\* sample_data: 'id': counter, ... (one dict per iteration)
SimRecord(t) == <<SimTag[t], counter[t]>>

\* A simulation thread that was started and has not left its loop.
SimAlive(t) == sim_pc[t] \notin {"unborn", "exited"}

\* self.socketio.emit(...): to the clients of the WebSocketServer's own hub.
\* Only websocket_server.py serves that hub.
SimBroadcast(msg) ==
    IF server = "websocket_server" THEN Broadcast(msg) ELSE inbox

\* The payload add_data emits: the records of the DataFrame.
RealTimePayload(t) == [src |-> "real_time", data |-> frame[t]]

\* load_sample_data: the n records of the sample file (none if the file is
\* missing or unreadable) are put into payload_list.
LoadSampleData(n) ==
    /\ server \in {"run_websocket", "websocket_server"}
    /\ main_pc = "load"
    /\ payload_list' = payload_list \o SampleRecords(n)
    /\ main_pc' = "start"
    /\ UNCHANGED <<server, current_data, data_lock, last_processed_data, has_processed,
                   pc, data_list, ref, total, op, resp, reply, clients, inbox, log,
                   requests, acq, sent, failed, late, is_running, sim_pc, counter,
                   sliced, frame, api_calls, sim_err, stopped, after_stop, file, header,
                   np_pc, df, result, tried, clock, runs, db_table, db_call, db_calls,
                   db_done>>

\* start_simulation at start-up (run: enable_simulation is set;
\* run_websocket.py start_simulation): the flag is set and a thread started.
MainStartSimulation(t) ==
    /\ main_pc = "start"
    /\ ~is_running
    /\ sim_pc[t] = "unborn"
    /\ is_running' = TRUE
    /\ sim_pc' = [sim_pc EXCEPT ![t] = "check"]
    /\ main_pc' = "serve"
    /\ UNCHANGED <<server, current_data, data_lock, last_processed_data, has_processed,
                   pc, data_list, ref, total, op, resp, reply, clients, inbox, log,
                   requests, acq, sent, failed, late, payload_list, counter, sliced,
                   frame, api_calls, sim_err, stopped, after_stop, file, header, np_pc,
                   df, result, tried, clock, runs, db_table, db_call, db_calls, db_done>>

\* run: enable_simulation is off, the server only serves.
MainNoSimulation ==
    /\ server = "websocket_server"
    /\ main_pc = "start"
    /\ main_pc' = "serve"
    /\ UNCHANGED <<server, current_data, data_lock, last_processed_data, has_processed,
                   pc, data_list, ref, total, op, resp, reply, clients, inbox, log,
                   requests, acq, sent, failed, late, payload_list, is_running, sim_pc,
                   counter, sliced, frame, api_calls, sim_err, stopped, after_stop, file,
                   header, np_pc, df, result, tried, clock, runs, db_table, db_call,
                   db_calls, db_done>>

\* start_simulation called on the serving instance: a thread is started
\* unless is_running is set.
StartSimulation(t) ==
    /\ server = "websocket_server"
    /\ main_pc = "serve"
    /\ api_calls < MaxApiCalls
    /\ api_calls' = api_calls + 1
    /\ IF ~is_running /\ sim_pc[t] = "unborn"
         THEN /\ is_running' = TRUE
              /\ sim_pc' = [sim_pc EXCEPT ![t] = "check"]
         ELSE /\ is_running
              /\ UNCHANGED <<is_running, sim_pc>>
    /\ UNCHANGED <<server, current_data, data_lock, last_processed_data, has_processed,
                   pc, data_list, ref, total, op, resp, reply, clients, inbox, log,
                   requests, acq, sent, failed, late, payload_list, main_pc, counter,
                   sliced, frame, sim_err, stopped, after_stop, file, header, np_pc, df,
                   result, tried, clock, runs, db_table, db_call, db_calls, db_done>>

\* stop_simulation: the flag is cleared.
StopSimulation ==
    /\ server = "websocket_server"
    /\ main_pc = "serve"
    /\ api_calls < MaxApiCalls
    /\ api_calls' = api_calls + 1
    /\ is_running' = FALSE
    /\ stopped' = [t \in SimThreads |-> stopped[t] \/ SimAlive(t)]
    /\ after_stop' = [t \in SimThreads |-> 0]
    /\ UNCHANGED <<server, current_data, data_lock, last_processed_data, has_processed,
                   pc, data_list, ref, total, op, resp, reply, clients, inbox, log,
                   requests, acq, sent, failed, late, payload_list, main_pc, sim_pc,
                   counter, sliced, frame, sim_err, file, header, np_pc, df, result,
                   tried, clock, runs, db_table, db_call, db_calls, db_done>>

\* while self.is_running: the thread leaves the loop or builds sample_data.
SimCheck(t) ==
    /\ sim_pc[t] = "check"
    /\ is_running => counter[t] < MaxSimRecords
    /\ sim_pc' = [sim_pc EXCEPT ![t] = IF is_running THEN "append" ELSE "exited"]
    /\ UNCHANGED <<server, current_data, data_lock, last_processed_data, has_processed,
                   pc, data_list, ref, total, op, resp, reply, clients, inbox, log,
                   requests, acq, sent, failed, late, payload_list, is_running, main_pc,
                   counter, sliced, frame, api_calls, sim_err, stopped, after_stop, file,
                   header, np_pc, df, result, tried, clock, runs, db_table, db_call,
                   db_calls, db_done>>

\* add_data: self.payload_list.append(data)
SimAppend(t) ==
    /\ sim_pc[t] = "append"
    /\ payload_list' = Append(payload_list, SimRecord(t))
    /\ after_stop' = [after_stop EXCEPT ![t] = IF stopped[t] THEN @ + 1 ELSE @]
    /\ sim_pc' = [sim_pc EXCEPT ![t] = "trunc_check"]
    /\ UNCHANGED <<server, current_data, data_lock, last_processed_data, has_processed,
                   pc, data_list, ref, total, op, resp, reply, clients, inbox, log,
                   requests, acq, sent, failed, late, is_running, main_pc, counter,
                   sliced, frame, api_calls, sim_err, stopped, file, header, np_pc, df,
                   result, tried, clock, runs, db_table, db_call, db_calls, db_done>>

\* add_data: if len(self.payload_list) > 1000
SimTruncCheck(t) ==
    /\ sim_pc[t] = "trunc_check"
    /\ sim_pc' = [sim_pc EXCEPT ![t] = IF Len(payload_list) > MaxRecords
                                         THEN "slice" ELSE "frame"]
    /\ UNCHANGED <<server, current_data, data_lock, last_processed_data, has_processed,
                   pc, data_list, ref, total, op, resp, reply, clients, inbox, log,
                   requests, acq, sent, failed, late, payload_list, is_running, main_pc,
                   counter, sliced, frame, api_calls, sim_err, stopped, after_stop, file,
                   header, np_pc, df, result, tried, clock, runs, db_table, db_call,
                   db_calls, db_done>>

\* add_data: the right-hand side self.payload_list[-1000:] is evaluated
SimSlice(t) ==
    /\ sim_pc[t] = "slice"
    /\ sliced' = [sliced EXCEPT ![t] = LastN(payload_list, MaxRecords)]
    /\ sim_pc' = [sim_pc EXCEPT ![t] = "rebind"]
    /\ UNCHANGED <<server, current_data, data_lock, last_processed_data, has_processed,
                   pc, data_list, ref, total, op, resp, reply, clients, inbox, log,
                   requests, acq, sent, failed, late, payload_list, is_running, main_pc,
                   counter, frame, api_calls, sim_err, stopped, after_stop, file, header,
                   np_pc, df, result, tried, clock, runs, db_table, db_call, db_calls,
                   db_done>>

\* add_data: self.payload_list = <the slice>
SimRebind(t) ==
    /\ sim_pc[t] = "rebind"
    /\ payload_list' = sliced[t]
    /\ sliced' = [sliced EXCEPT ![t] = <<>>]
    /\ sim_pc' = [sim_pc EXCEPT ![t] = "frame"]
    /\ UNCHANGED <<server, current_data, data_lock, last_processed_data, has_processed,
                   pc, data_list, ref, total, op, resp, reply, clients, inbox, log,
                   requests, acq, sent, failed, late, is_running, main_pc, counter,
                   frame, api_calls, sim_err, stopped, after_stop, file, header, np_pc,
                   df, result, tried, clock, runs, db_table, db_call, db_calls, db_done>>

\* add_data: df = pd.DataFrame(self.payload_list)
SimFrame(t) ==
    /\ sim_pc[t] = "frame"
    /\ frame' = [frame EXCEPT ![t] = payload_list]
    /\ sim_pc' = [sim_pc EXCEPT ![t] = "emit"]
    /\ UNCHANGED <<server, current_data, data_lock, last_processed_data, has_processed,
                   pc, data_list, ref, total, op, resp, reply, clients, inbox, log,
                   requests, acq, sent, failed, late, payload_list, is_running, main_pc,
                   counter, sliced, api_calls, sim_err, stopped, after_stop, file,
                   header, np_pc, df, result, tried, clock, runs, db_table, db_call,
                   db_calls, db_done>>

\* add_data: self.socketio.emit('new_data', ...); add_data returns and the
\* loop counts the record (counter += 1).
SimEmit(t) ==
    /\ sim_pc[t] = "emit"
    /\ inbox' = SimBroadcast(RealTimePayload(t))
    /\ frame' = [frame EXCEPT ![t] = <<>>]
    /\ counter' = [counter EXCEPT ![t] = @ + 1]
    /\ sim_pc' = [sim_pc EXCEPT ![t] = "sleep"]
    /\ UNCHANGED <<server, current_data, data_lock, last_processed_data, has_processed,
                   pc, data_list, ref, total, op, resp, reply, clients, log, requests,
                   acq, sent, failed, late, payload_list, is_running, main_pc, sliced,
                   api_calls, sim_err, stopped, after_stop, file, header, np_pc, df,
                   result, tried, clock, runs, db_table, db_call, db_calls, db_done>>

\* add_data: the emit raises; the except clause of add_data logs the error
\* and add_data returns normally; the loop counts the record.
SimEmitRaises(t) ==
    /\ sim_pc[t] = "emit"
    /\ sim_err' = [sim_err EXCEPT ![t] = TRUE]
    /\ frame' = [frame EXCEPT ![t] = <<>>]
    /\ counter' = [counter EXCEPT ![t] = @ + 1]
    /\ sim_pc' = [sim_pc EXCEPT ![t] = "sleep"]
    /\ UNCHANGED <<server, current_data, data_lock, last_processed_data, has_processed,
                   pc, data_list, ref, total, op, resp, reply, clients, inbox, log,
                   requests, acq, sent, failed, late, payload_list, is_running, main_pc,
                   sliced, api_calls, stopped, after_stop, file, header, np_pc, df,
                   result, tried, clock, runs, db_table, db_call, db_calls, db_done>>

\* time.sleep(self.config.get_simulation_interval()) returns.
SimSleep(t) ==
    /\ sim_pc[t] = "sleep"
    /\ sim_err' = [sim_err EXCEPT ![t] = FALSE]
    /\ sim_pc' = [sim_pc EXCEPT ![t] = "check"]
    /\ UNCHANGED <<server, current_data, data_lock, last_processed_data, has_processed,
                   pc, data_list, ref, total, op, resp, reply, clients, inbox, log,
                   requests, acq, sent, failed, late, payload_list, is_running, main_pc,
                   counter, sliced, frame, api_calls, stopped, after_stop, file, header,
                   np_pc, df, result, tried, clock, runs, db_table, db_call, db_calls,
                   db_done>>

\* The configured interval is not a valid argument of time.sleep: the call
\* raises and the except clause of the loop is entered.
SimSleepRaises(t) ==
    /\ sim_pc[t] = "sleep"
    /\ sim_err' = [sim_err EXCEPT ![t] = TRUE]
    /\ sim_pc' = [sim_pc EXCEPT ![t] = "backoff"]
    /\ UNCHANGED <<server, current_data, data_lock, last_processed_data, has_processed,
                   pc, data_list, ref, total, op, resp, reply, clients, inbox, log,
                   requests, acq, sent, failed, late, payload_list, is_running, main_pc,
                   counter, sliced, frame, api_calls, stopped, after_stop, file, header,
                   np_pc, df, result, tried, clock, runs, db_table, db_call, db_calls,
                   db_done>>

\* except: time.sleep(5) returns, then the next iteration.
SimBackoff(t) ==
    /\ sim_pc[t] = "backoff"
    /\ sim_err' = [sim_err EXCEPT ![t] = FALSE]
    /\ sim_pc' = [sim_pc EXCEPT ![t] = "check"]
    /\ UNCHANGED <<server, current_data, data_lock, last_processed_data, has_processed,
                   pc, data_list, ref, total, op, resp, reply, clients, inbox, log,
                   requests, acq, sent, failed, late, payload_list, is_running, main_pc,
                   counter, sliced, frame, api_calls, stopped, after_stop, file, header,
                   np_pc, df, result, tried, clock, runs, db_table, db_call, db_calls,
                   db_done>>

\* The steps of a simulate_data_stream thread.
SimNext ==
    \/ \E t \in SimThreads : SimCheck(t)
    \/ \E t \in SimThreads : SimAppend(t)
    \/ \E t \in SimThreads : SimTruncCheck(t)
    \/ \E t \in SimThreads : SimSlice(t)
    \/ \E t \in SimThreads : SimRebind(t)
    \/ \E t \in SimThreads : SimFrame(t)
    \/ \E t \in SimThreads : SimEmit(t)
    \/ \E t \in SimThreads : SimEmitRaises(t)
    \/ \E t \in SimThreads : SimSleep(t)
    \/ \E t \in SimThreads : SimSleepRaises(t)
    \/ \E t \in SimThreads : SimBackoff(t)

\* run_websocket.py: app.py with its clients, and the simulating instance.
NextRun ==
    \/ ProducerNext
    \/ \E s \in OneSub : Connect(s)
    \/ \E s \in OneSub : Disconnect(s)
    \/ \E s \in OneSub : AppHandleDataRequest(s)
    \/ \E n \in BatchSizes : LoadSampleData(n)
    \/ \E t \in SimThreads : MainStartSimulation(t)
    \/ SimNext

\* websocket_server.py: the instance is served and has clients;
\* start_simulation and stop_simulation are called on it.
NextWs ==
    \/ \E s \in OneSub : Connect(s)
    \/ \E s \in OneSub : Disconnect(s)
    \/ \E n \in BatchSizes : LoadSampleData(n)
    \/ \E t \in SimThreads : MainStartSimulation(t)
    \/ MainNoSimulation
    \/ \E t \in SimThreads : StartSimulation(t)
    \/ StopSimulation
    \/ SimNext

InitRun == Init /\ server = "run_websocket"

InitWs == Init /\ server = "websocket_server"

SpecRun == InitRun /\ [][NextRun]_vars

SpecWs == InitWs /\ [][NextWs]_vars

\* app.py load_sample_data: the sample file is processed (DataProcessor caches
\* the frame) and its records are emitted to every client; add_data_to_stream
\* is not called.  A missing file (404) or an exception (500) changes nothing.
AppLoadSampleData(n) ==
    /\ AppServed
    /\ last_processed_data' = SampleRecords(n)
    /\ has_processed' = TRUE
    /\ inbox' = Broadcast([src |-> "sample_data", data |-> SampleRecords(n)])
    /\ UNCHANGED <<server, current_data, data_lock, pc, data_list, ref, total, op, resp,
                   reply, clients, log, requests, acq, sent, failed, late, payload_list,
                   is_running, main_pc, sim_pc, counter, sliced, frame, api_calls,
                   sim_err, stopped, after_stop, file, header, np_pc, df, result, tried,
                   clock, runs, db_table, db_call, db_calls, db_done>>

\* websocket_server.py handle_data_request: if payload_list is not empty,
\* self.socketio.emit sends its records to every connected client.
WsHandleDataRequest(s) ==
    /\ server = "websocket_server"
    /\ main_pc = "serve"
    /\ pc[s] = "in"
    /\ inbox' = IF payload_list # <<>>
                  THEN Broadcast([src |-> "current_data", data |-> payload_list])
                  ELSE inbox
    /\ UNCHANGED <<server, current_data, data_lock, last_processed_data, has_processed,
                   pc, data_list, ref, total, op, resp, reply, clients, log, requests,
                   acq, sent, failed, late, payload_list, is_running, main_pc, sim_pc,
                   counter, sliced, frame, api_calls, sim_err, stopped, after_stop, file,
                   header, np_pc, df, result, tried, clock, runs, db_table, db_call,
                   db_calls, db_done>>

\* run_websocket.py with ENABLE_SIMULATION=false: app.py alone, with its
\* uploads, its sample route and its clients.
NextSample ==
    \/ ProducerNext
    \/ \E s \in OneSub : Connect(s)
    \/ \E s \in OneSub : Disconnect(s)
    \/ \E s \in OneSub : AppHandleDataRequest(s)
    \/ \E n \in BatchSizes : AppLoadSampleData(n)

SpecSample == InitRun /\ [][NextSample]_vars

\* The request_data event with two clients: app.py under run_websocket.py
\* (its uploads fill the cache) or websocket_server.py (the sample file and
\* the simulation fill payload_list).
NextRequest ==
    \/ ProducerNext
    \/ \E s \in Subs : Connect(s)
    \/ \E s \in Subs : Disconnect(s)
    \/ \E s \in Subs : AppHandleDataRequest(s)
    \/ \E s \in Subs : WsHandleDataRequest(s)
    \/ \E n \in BatchSizes : LoadSampleData(n)
    \/ \E t \in SimThreads : MainStartSimulation(t)
    \/ MainNoSimulation
    \/ SimNext

InitRequest == Init /\ server \in {"run_websocket", "websocket_server"}

SpecRequest == InitRequest /\ [][NextRequest]_vars

--------------------------------------------------------------------------
\* DataProcessor (data_processor.py): the record source of a JSON file.
\*
\* A JSON document is a top-level array of len elements, an object (a dict:
\* its fields in file order, each a scalar, null, a nested object or an
\* array of len elements), or a top-level scalar.

MaxFields == 3
MaxElems == 2

JsonKeys == {"data", "results", "x", "y"}

JsonFields ==
    [key : JsonKeys, kind : {"scalar", "null", "object"}, len : {0}]
      \cup [key : JsonKeys, kind : {"array"}, len : 0..MaxElems]

\* The objects: no key occurs twice.
JsonObjects ==
    {f \in UNION {[1..n -> JsonFields] : n \in 0..MaxFields} :
        \A i, j \in 1..Len(f) : f[i].key = f[j].key => i = j}

JsonDocs ==
    {[kind |-> "array", len |-> n, fields |-> <<>>] : n \in 0..MaxElems}
      \cup {[kind |-> "object", len |-> 0, fields |-> f] : f \in JsonObjects}
      \cup {[kind |-> "scalar", len |-> 0, fields |-> <<>>]}

\* None, as the value of max_key / main_key.
NoKey == "None"

\* common_keys
CommonKeys == <<"data", "items", "records", "results", "rows", "entries">>

\* key in data and isinstance(data[key], list)
IsListField(fields, k) ==
    \E i \in 1..Len(fields) : fields[i].key = k /\ fields[i].kind = "array"

\* len(data[key]) for a key of the object
FieldLen(fields, k) ==
    fields[CHOOSE i \in 1..Len(fields) : fields[i].key = k].len

\* for key in common_keys: ... return key
RECURSIVE FirstCommonKey(_, _)
FirstCommonKey(fields, i) ==
    IF i > Len(CommonKeys) THEN NoKey
    ELSE IF IsListField(fields, CommonKeys[i]) THEN CommonKeys[i]
    ELSE FirstCommonKey(fields, i + 1)

\* for key, value in data.items(): if isinstance(value, list) and
\* len(value) > max_len: ...
RECURSIVE LargestArrayKey(_, _, _, _)
LargestArrayKey(fields, i, max_len, max_key) ==
    IF i > Len(fields) THEN max_key
    ELSE IF fields[i].kind = "array" /\ fields[i].len > max_len
           THEN LargestArrayKey(fields, i + 1, fields[i].len, fields[i].key)
           ELSE LargestArrayKey(fields, i + 1, max_len, max_key)

\* _find_main_data_key
FindMainDataKey(fields) ==
    LET common == FirstCommonKey(fields, 1)
    IN  IF common # NoKey THEN common ELSE LargestArrayKey(fields, 1, 0, NoKey)

\* The truth value of main_key in  if main_key and ...
Truthy(k) == k # NoKey /\ k # ""

\* _process_json_file, lines 40-55: where the rows of df come from and how
\* many there are before cleaning.
JsonSource(doc) ==
    IF doc.kind = "array"
      THEN [status |-> "ok", how |-> "array", key |-> NoKey, count |-> doc.len]
    ELSE IF doc.kind = "object"
      THEN IF \A i \in 1..Len(doc.fields) : doc.fields[i].kind = "scalar"
             THEN [status |-> "ok", how |-> "flat", key |-> NoKey, count |-> 1]
             ELSE LET main_key == FindMainDataKey(doc.fields)
                  IN  IF Truthy(main_key) /\ IsListField(doc.fields, main_key)
                        THEN [status |-> "ok", how |-> "key", key |-> main_key,
                              count |-> FieldLen(doc.fields, main_key)]
                        ELSE [status |-> "ok", how |-> "flatten", key |-> NoKey,
                              count |-> 1]
    ELSE [status |-> "ValueError", how |-> "none", key |-> NoKey, count |-> 0]

\* _process_json_file up to the DataFrame: json.load, then the record source.
ProcessJsonFile ==
    /\ np_pc = "json"
    /\ result' = JsonSource(file)
    /\ np_pc' = "done"
    /\ UNCHANGED <<server, current_data, data_lock, last_processed_data, has_processed,
                   pc, data_list, ref, total, op, resp, reply, clients, inbox, log,
                   requests, acq, sent, failed, late, payload_list, is_running, main_pc,
                   sim_pc, counter, sliced, frame, api_calls, sim_err, stopped,
                   after_stop, file, header, df, tried, clock, runs, db_table, db_call,
                   db_calls, db_done>>

NextJson == ProcessJsonFile

InitJson ==
    /\ InitStream
    /\ server = "app"
    /\ file \in JsonDocs
    /\ header = <<>>
    /\ np_pc = "json"

SpecJson == InitJson /\ [][NextJson]_vars

--------------------------------------------------------------------------
\* DataProcessor: the encoding of a CSV file.
\*
\* A file is a sequence of bytes.  The bytes of the model: an ASCII letter,
\* the lead bytes of a two-byte and of a three-byte UTF-8 sequence, and two
\* bytes that are UTF-8 continuation bytes, one of them without a character
\* in cp1252.

MaxBytes == 3

CsvBytes == {65, 129, 169, 195, 233}

CsvFiles == UNION {[1..n -> CsvBytes] : n \in 0..MaxBytes}

\* Mutant of Encodings: a legacy single-byte encoding is tried first.
EncodingsLegacyFirst == <<"latin-1", "utf-8", "cp1252">>

\* encodings
Encodings == <<"utf-8", "latin-1", "cp1252">>

IsContinuation(b) == b >= 128 /\ b <= 191

\* The UTF-8 decoder from position i: the code points, or <<-1>> at the end for
\* an invalid or truncated sequence.
RECURSIVE Utf8Decode(_, _)
Utf8Decode(b, i) ==
    IF i > Len(b) THEN <<>>
    ELSE IF b[i] < 128 THEN <<b[i]>> \o Utf8Decode(b, i + 1)
    ELSE IF b[i] >= 194 /\ b[i] <= 223 /\ i + 1 <= Len(b) /\ IsContinuation(b[i + 1])
      THEN <<(b[i] - 192) * 64 + (b[i + 1] - 128)>> \o Utf8Decode(b, i + 2)
    ELSE IF b[i] >= 225 /\ b[i] <= 236 /\ i + 2 <= Len(b)
            /\ IsContinuation(b[i + 1]) /\ IsContinuation(b[i + 2])
      THEN <<(b[i] - 224) * 4096 + (b[i + 1] - 128) * 64 + (b[i + 2] - 128)>>
             \o Utf8Decode(b, i + 3)
    ELSE <<-1>>

\* Bytes without a character in Python's cp1252 codec.
Cp1252Undefined == {129, 141, 143, 144, 157}

\* bytes.decode(encoding): the code points, ending in -1 where the codec
\* raises UnicodeDecodeError.  latin-1 maps every byte to its code point;
\* cp1252 agrees with latin-1 from 160 on.
Decode(encoding, b) ==
    IF encoding = "utf-8" THEN Utf8Decode(b, 1)
    ELSE IF encoding = "latin-1" THEN b
    ELSE IF \E i \in 1..Len(b) : b[i] \in Cp1252Undefined THEN <<-1>>
    ELSE b

\* The codec raises UnicodeDecodeError on the file.
DecodeFails(encoding, b) ==
    LET text == Decode(encoding, b)
    IN  text # <<>> /\ text[Len(text)] = -1

\* for encoding in encodings: one pd.read_csv(filepath, encoding=encoding).
\* An empty file raises EmptyDataError, which the loop does not catch: it
\* leaves _process_csv_file.  UnicodeDecodeError goes on to the next
\* candidate; a successful read leaves the loop (break).
CsvTry ==
    /\ np_pc = "csv"
    /\ Len(tried) < Len(Encodings)
    /\ LET i == Len(tried) + 1
           encoding == Encodings[i]
       IN  /\ tried' = Append(tried, encoding)
           /\ IF file = <<>>
                THEN /\ result' = [status |-> "EmptyDataError", encoding |-> "none",
                                   text |-> <<>>]
                     /\ np_pc' = "done"
              ELSE IF DecodeFails(encoding, file)
                THEN /\ np_pc' = IF i + 1 > Len(Encodings) THEN "csv_none" ELSE "csv"
                     /\ UNCHANGED result
              ELSE /\ result' = [status |-> "read", encoding |-> encoding,
                                 text |-> Decode(encoding, file)]
                   /\ np_pc' = "csv_read"
    /\ UNCHANGED <<server, current_data, data_lock, last_processed_data, has_processed,
                   pc, data_list, ref, total, op, resp, reply, clients, inbox, log,
                   requests, acq, sent, failed, late, payload_list, is_running, main_pc,
                   sim_pc, counter, sliced, frame, api_calls, sim_err, stopped,
                   after_stop, file, header, df, clock, runs, db_table, db_call,
                   db_calls, db_done>>

\* After the loop: if df is None: raise ValueError; otherwise the frame is
\* cleaned, cached and returned.
CsvAfterLoop ==
    /\ np_pc \in {"csv_none", "csv_read"}
    /\ result' = IF np_pc = "csv_none"
                   THEN [status |-> "ValueError", encoding |-> "none", text |-> <<>>]
                   ELSE [result EXCEPT !.status = "ok"]
    /\ np_pc' = "done"
    /\ UNCHANGED <<server, current_data, data_lock, last_processed_data, has_processed,
                   pc, data_list, ref, total, op, resp, reply, clients, inbox, log,
                   requests, acq, sent, failed, late, payload_list, is_running, main_pc,
                   sim_pc, counter, sliced, frame, api_calls, sim_err, stopped,
                   after_stop, file, header, df, tried, clock, runs, db_table, db_call,
                   db_calls, db_done>>

NextCsv == CsvTry \/ CsvAfterLoop

InitCsv ==
    /\ InitStream
    /\ server = "app"
    /\ file \in CsvFiles
    /\ header = <<>>
    /\ np_pc = "csv"

SpecCsv == InitCsv /\ [][NextCsv]_vars

--------------------------------------------------------------------------
\* DataProcessor: cleaning and type inference (_clean_dataframe).
\*
\* The uploaded records (a JSON array of objects) have two fields, "Value" and
\* "Created At".  A cell is null, a JSON number ("num"), a string that parses
\* as a number ("numtxt", e.g. "12"), a string that parses as a date
\* ("datetxt", e.g. "2024-01-01") or any other string ("txt", e.g. "abc").
\* A converted cell is a number ("num") or a Timestamp ("ts").

MaxRows == 4

\* process_file calls on the same file in one behaviour.
MaxCalls == 2

ValueCells == {"null", "num", "numtxt", "txt"}
DateCells == {"null", "datetxt", "txt"}

\* The keys of the uploaded records, in file order.
RawNames == <<"Value", "Created At">>

JsonRecords == UNION {[1..n -> ValueCells \X DateCells] : n \in 0..MaxRows}

\* Rows of the files whose column names vary.
MaxNameRows == 2

\* The column names of the uploaded files: the names of one file are distinct.
Headers == {RawNames, <<"Value", "value">>, <<"value ", "Created At">>,
            <<"Created At", "created_at">>}

NameRecords == UNION {[1..n -> ValueCells \X DateCells] : n \in 0..MaxNameRows}

\* col.strip().replace(' ', '_').lower() on the names of the model.
CleanName(col) ==
    CASE col = "Value" -> "value"
      [] col = "value " -> "value"
      [] col = "Created At" -> "created_at"
      [] OTHER -> col

\* any(keyword in col.lower() for keyword in datetime_keywords): of the names
\* of the model only created_at contains a keyword ('created').
HasDatetimeKeyword(col) == col \in {"created_at", "Created At"}

\* The type of a cell value.
CellType(c) ==
    CASE c = "null" -> "null"
      [] c = "num" -> "number"
      [] c = "ts" -> "timestamp"
      [] OTHER -> "text"

\* The elements of a list at the indices in keep, in order.
RECURSIVE Pick(_, _, _)
Pick(cells, keep, i) ==
    IF i > Len(cells) THEN <<>>
    ELSE (IF i \in keep THEN <<cells[i]>> ELSE <<>>) \o Pick(cells, keep, i + 1)

\* The dtype pandas gives a column built from Python values: numeric if every
\* value present is a number, object otherwise.
FrameDtype(cells) ==
    IF \A i \in 1..Len(cells) : cells[i] \in {"null", "num"}
      THEN "number" ELSE "object"

\* pd.DataFrame(data): one row per record, one column per key.
DataFrame(records) ==
    IF records = <<>> THEN NoFrame
    ELSE [NoFrame EXCEPT
            !.nrows = Len(records),
            !.cols = [c \in 1..Len(header) |->
                        LET cells == [i \in 1..Len(records) |-> records[i][c]]
                        IN  [name |-> header[c], dtype |-> FrameDtype(cells),
                             cells |-> cells]]]

\* Mutant of DropEmpty: only the empty columns are dropped.
DropEmptyColumns(d) ==
    LET NotEmpty(col) == \E i \in 1..Len(col.cells) : col.cells[i] # "null"
    IN  [d EXCEPT !.cols = SelectSeq(d.cols, NotEmpty)]

\* df.dropna(how='all').dropna(axis=1, how='all')
DropEmpty(d) ==
    LET keep == {i \in 1..d.nrows :
                   \E c \in 1..Len(d.cols) : d.cols[c].cells[i] # "null"}
        rows == [c \in 1..Len(d.cols) |->
                   [d.cols[c] EXCEPT !.cells = Pick(d.cols[c].cells, keep, 1)]]
        NotEmpty(col) == \E i \in 1..Len(col.cells) : col.cells[i] # "null"
    IN  [d EXCEPT !.nrows = Cardinality(keep), !.cols = SelectSeq(rows, NotEmpty)]

\* df.columns = [col.strip().replace(' ', '_').lower() for col in df.columns]
CleanNames(d) ==
    [d EXCEPT !.cols = [c \in 1..Len(d.cols) |->
                          [d.cols[c] EXCEPT !.name = CleanName(d.cols[c].name)]]]

\* pd.to_datetime(df[col], errors='ignore'): every value present parses and
\* the column becomes a datetime column (null stays null), or one value does
\* not parse and the input is returned as it is.
ToDatetimeIgnore(col) ==
    IF \A i \in 1..Len(col.cells) : col.cells[i] \in {"null", "datetxt", "ts"}
      THEN [col EXCEPT !.dtype = "timestamp",
                       !.cells = [i \in 1..Len(col.cells) |->
                                    IF col.cells[i] = "null" THEN "null" ELSE "ts"]]
      ELSE col

\* df[col] of a name that two columns carry is a DataFrame, not a Series.
Duplicated(d, name) ==
    Cardinality({c \in 1..Len(d.cols) : d.cols[c].name = name}) > 1

\* _parse_datetime_columns: pd.to_datetime raises on a DataFrame with
\* duplicate column names and the bare except keeps the columns.
ParseDatetimeColumns(d) ==
    [d EXCEPT !.cols = [c \in 1..Len(d.cols) |->
                          IF /\ HasDatetimeKeyword(d.cols[c].name)
                             /\ ~Duplicated(d, d.cols[c].name)
                            THEN ToDatetimeIgnore(d.cols[c])
                            ELSE d.cols[c]]]

\* pd.to_numeric(df[col], errors='coerce')
ToNumericCoerce(cells) ==
    [i \in 1..Len(cells) |-> IF cells[i] \in {"num", "numtxt"} THEN "num" ELSE "null"]

\* numeric_series.notna().sum()
NotNaCount(cells) == Cardinality({i \in 1..Len(cells) : cells[i] # "null"})

\* _parse_numeric_columns, one column of dtype object: converted if
\* numeric_series.notna().sum() / len(df) > 0.5
NumericColumn(col, nrows) ==
    LET numeric_series == ToNumericCoerce(col.cells)
    IN  IF col.dtype = "object" /\ nrows > 0
             /\ 2 * NotNaCount(numeric_series) > nrows
          THEN [col EXCEPT !.dtype = "number", !.cells = numeric_series]
          ELSE col

\* Mutant of ParseNumericColumns: a file processed earlier makes the call
\* skip the inference.
ParseNumericColumnsOnce(d) ==
    IF has_processed THEN d
    ELSE [d EXCEPT !.cols = [c \in 1..Len(d.cols) |->
                               NumericColumn(d.cols[c], d.nrows)]]

\* _parse_numeric_columns
ParseNumericColumns(d) ==
    [d EXCEPT !.cols = [c \in 1..Len(d.cols) |-> NumericColumn(d.cols[c], d.nrows)]]

\* _parse_numeric_columns: df[col].dtype, evaluated outside the try, raises
\* AttributeError at the first column whose name another column carries.
NumericRaises(d) == \E c \in 1..Len(d.cols) : Duplicated(d, d.cols[c].name)

\* The frame when that error is raised: the columns before it are done.
NumericPartial(d) ==
    LET first == CHOOSE c \in 1..Len(d.cols) :
                   /\ Duplicated(d, d.cols[c].name)
                   /\ \A b \in 1..(c - 1) : ~Duplicated(d, d.cols[b].name)
    IN  [d EXCEPT !.cols = [c \in 1..Len(d.cols) |->
                              IF c < first THEN NumericColumn(d.cols[c], d.nrows)
                                           ELSE d.cols[c]]]

\* df['_processed_at'] = datetime.now(); df['_record_id'] = range(len(df))
AddMetadata(d, now) ==
    [d EXCEPT !.meta = TRUE, !.processed_at = now,
              !.record_id = [i \in 1..d.nrows |-> i - 1]]

\* _process_json_file: df = pd.DataFrame(data); _clean_dataframe: empty rows
\* and columns are dropped and the column names cleaned.
CleanStart ==
    /\ np_pc = "frame"
    /\ df' = CleanNames(DropEmpty(DataFrame(file)))
    /\ np_pc' = "datetime"
    /\ UNCHANGED <<server, current_data, data_lock, last_processed_data, has_processed,
                   pc, data_list, ref, total, op, resp, reply, clients, inbox, log,
                   requests, acq, sent, failed, late, payload_list, is_running, main_pc,
                   sim_pc, counter, sliced, frame, api_calls, sim_err, stopped,
                   after_stop, file, header, result, tried, clock, runs, db_table,
                   db_call, db_calls, db_done>>

\* _clean_dataframe: df = self._parse_datetime_columns(df)
CleanDatetime ==
    /\ np_pc = "datetime"
    /\ df' = ParseDatetimeColumns(df)
    /\ np_pc' = "numeric"
    /\ UNCHANGED <<server, current_data, data_lock, last_processed_data, has_processed,
                   pc, data_list, ref, total, op, resp, reply, clients, inbox, log,
                   requests, acq, sent, failed, late, payload_list, is_running, main_pc,
                   sim_pc, counter, sliced, frame, api_calls, sim_err, stopped,
                   after_stop, file, header, result, tried, clock, runs, db_table,
                   db_call, db_calls, db_done>>

\* _clean_dataframe: df = self._parse_numeric_columns(df); an error raised
\* there is caught by the except of _clean_dataframe.
CleanNumeric ==
    /\ np_pc = "numeric"
    /\ IF NumericRaises(df)
         THEN /\ df' = NumericPartial(df)
              /\ np_pc' = "clean_failed"
         ELSE /\ df' = ParseNumericColumns(df)
              /\ np_pc' = "metadata"
    /\ UNCHANGED <<server, current_data, data_lock, last_processed_data, has_processed,
                   pc, data_list, ref, total, op, resp, reply, clients, inbox, log,
                   requests, acq, sent, failed, late, payload_list, is_running, main_pc,
                   sim_pc, counter, sliced, frame, api_calls, sim_err, stopped,
                   after_stop, file, header, result, tried, clock, runs, db_table,
                   db_call, db_calls, db_done>>

\* _clean_dataframe: the metadata columns, or, in the except branch, 'return
\* df' without them; _process_json_file: the frame is cached in
\* last_processed_data and returned.
CleanFinish ==
    /\ np_pc \in {"metadata", "clean_failed"}
    /\ df' = IF np_pc = "metadata" THEN AddMetadata(df, clock) ELSE df
    /\ last_processed_data' = df'
    /\ has_processed' = TRUE
    /\ result' = [status |-> "ok"]
    /\ runs' = Append(runs, df')
    /\ np_pc' = "done"
    /\ UNCHANGED <<server, current_data, data_lock, pc, data_list, ref, total, op, resp,
                   reply, clients, inbox, log, requests, acq, sent, failed, late,
                   payload_list, is_running, main_pc, sim_pc, counter, sliced, frame,
                   api_calls, sim_err, stopped, after_stop, file, header, tried, clock,
                   db_table, db_call, db_calls, db_done>>

\* process_file is called again with the same file, later.
ProcessAgain ==
    /\ np_pc = "done"
    /\ clock + 1 < MaxCalls
    /\ clock' = clock + 1
    /\ df' = NoFrame
    /\ result' = NoResult
    /\ np_pc' = "frame"
    /\ UNCHANGED <<server, current_data, data_lock, last_processed_data, has_processed,
                   pc, data_list, ref, total, op, resp, reply, clients, inbox, log,
                   requests, acq, sent, failed, late, payload_list, is_running, main_pc,
                   sim_pc, counter, sliced, frame, api_calls, sim_err, stopped,
                   after_stop, file, header, tried, runs, db_table, db_call, db_calls,
                   db_done>>

NextClean ==
    \/ CleanStart
    \/ CleanDatetime
    \/ CleanNumeric
    \/ CleanFinish
    \/ ProcessAgain

InitClean ==
    /\ InitStream
    /\ server = "app"
    /\ file \in JsonRecords
    /\ header = RawNames
    /\ np_pc = "frame"

SpecClean == InitClean /\ [][NextClean]_vars

\* The same calls on files whose column names vary.
InitNames ==
    /\ InitStream
    /\ server = "app"
    /\ header \in Headers
    /\ file \in NameRecords
    /\ np_pc = "frame"

SpecNames == InitNames /\ [][NextClean]_vars

--------------------------------------------------------------------------
\* database_dashboard.py: the persistent sink.  save_data_to_db is called by
\* the upload route and by the simulation thread, each call with a session of
\* its own; the database makes a commit atomic.

\* save_data_to_db calls in one behaviour, and records of an uploaded batch.
MaxDbCalls == 3
MaxDbBatch == 2

DbCallers == {"upload", "sim"}

\* An item converts to a DataRecord ("ok") or float()/int()/fromisoformat
\* raises on it ("bad").
DbBatches == UNION {[1..n -> {"ok", "bad"}] : n \in 0..MaxDbBatch}

NoCall == [pc |-> "idle", id |-> 0, batch |-> <<>>, added |-> 0,
           pending |-> <<>>, open |-> FALSE, exc |-> FALSE, count |-> 0]

\* save_data_to_db is entered: db = SessionLocal(); records_added = 0
DbEnter(batch) ==
    [NoCall EXCEPT !.pc = "add", !.id = db_calls + 1, !.batch = batch, !.open = TRUE]

\* upload_file: the file was processed; save_data_to_db(data, ...)
UploadFile(batch) ==
    /\ db_call["upload"].pc = "idle"
    /\ db_calls < MaxDbCalls
    /\ db_calls' = db_calls + 1
    /\ db_call' = [db_call EXCEPT !["upload"] = DbEnter(batch)]
    /\ UNCHANGED <<server, current_data, data_lock, last_processed_data, has_processed,
                   pc, data_list, ref, total, op, resp, reply, clients, inbox, log,
                   requests, acq, sent, failed, late, payload_list, is_running, main_pc,
                   sim_pc, counter, sliced, frame, api_calls, sim_err, stopped,
                   after_stop, file, header, np_pc, df, result, tried, clock, runs,
                   db_table, db_done>>

\* simulate_real_time_data: a record is generated;
\* save_data_to_db([new_record], ...)
SimulateSave ==
    /\ db_call["sim"].pc = "idle"
    /\ db_calls < MaxDbCalls
    /\ db_calls' = db_calls + 1
    /\ db_call' = [db_call EXCEPT !["sim"] = DbEnter(<<"ok">>)]
    /\ UNCHANGED <<server, current_data, data_lock, last_processed_data, has_processed,
                   pc, data_list, ref, total, op, resp, reply, clients, inbox, log,
                   requests, acq, sent, failed, late, payload_list, is_running, main_pc,
                   sim_pc, counter, sliced, frame, api_calls, sim_err, stopped,
                   after_stop, file, header, np_pc, df, result, tried, clock, runs,
                   db_table, db_done>>

\* Mutant of DbAdd: a session that commits every add at once.
DbAddAutocommit(c) ==
    /\ db_call[c].pc = "add"
    /\ db_call[c].added < Len(db_call[c].batch)
    /\ db_call[c].batch[db_call[c].added + 1] = "ok"
    /\ db_table' = Append(db_table, <<db_call[c].id, db_call[c].added + 1>>)
    /\ db_call' = [db_call EXCEPT ![c].added = @ + 1]
    /\ UNCHANGED <<server, current_data, data_lock, last_processed_data, has_processed,
                   pc, data_list, ref, total, op, resp, reply, clients, inbox, log,
                   requests, acq, sent, failed, late, payload_list, is_running, main_pc,
                   sim_pc, counter, sliced, frame, api_calls, sim_err, stopped,
                   after_stop, file, header, np_pc, df, result, tried, clock, runs,
                   db_calls, db_done>>

\* The loop body: db_record = DataRecord(...); db.add(db_record);
\* records_added += 1
DbAdd(c) ==
    /\ db_call[c].pc = "add"
    /\ db_call[c].added < Len(db_call[c].batch)
    /\ db_call[c].batch[db_call[c].added + 1] = "ok"
    /\ db_call' = [db_call EXCEPT
                     ![c].pending = Append(@, <<db_call[c].id, db_call[c].added + 1>>),
                     ![c].added = @ + 1]
    /\ UNCHANGED <<server, current_data, data_lock, last_processed_data, has_processed,
                   pc, data_list, ref, total, op, resp, reply, clients, inbox, log,
                   requests, acq, sent, failed, late, payload_list, is_running, main_pc,
                   sim_pc, counter, sliced, frame, api_calls, sim_err, stopped,
                   after_stop, file, header, np_pc, df, result, tried, clock, runs,
                   db_table, db_calls, db_done>>

\* The loop body: the conversion of an item raises; the except clause is
\* entered.
DbConvertRaises(c) ==
    /\ db_call[c].pc = "add"
    /\ db_call[c].added < Len(db_call[c].batch)
    /\ db_call[c].batch[db_call[c].added + 1] = "bad"
    /\ db_call' = [db_call EXCEPT ![c].pc = "rollback"]
    /\ UNCHANGED <<server, current_data, data_lock, last_processed_data, has_processed,
                   pc, data_list, ref, total, op, resp, reply, clients, inbox, log,
                   requests, acq, sent, failed, late, payload_list, is_running, main_pc,
                   sim_pc, counter, sliced, frame, api_calls, sim_err, stopped,
                   after_stop, file, header, np_pc, df, result, tried, clock, runs,
                   db_table, db_calls, db_done>>

\* db.commit() succeeds: the pending rows are stored; return records_added
\* (the finally clause follows).
DbCommit(c) ==
    /\ db_call[c].pc = "add"
    /\ db_call[c].added = Len(db_call[c].batch)
    /\ db_table' = db_table \o db_call[c].pending
    /\ db_call' = [db_call EXCEPT ![c].pending = <<>>,
                                  ![c].count = db_call[c].added,
                                  ![c].pc = "close"]
    /\ UNCHANGED <<server, current_data, data_lock, last_processed_data, has_processed,
                   pc, data_list, ref, total, op, resp, reply, clients, inbox, log,
                   requests, acq, sent, failed, late, payload_list, is_running, main_pc,
                   sim_pc, counter, sliced, frame, api_calls, sim_err, stopped,
                   after_stop, file, header, np_pc, df, result, tried, clock, runs,
                   db_calls, db_done>>

\* db.commit() raises (the database refuses or is gone): nothing is stored and
\* the except clause is entered.
DbCommitRaises(c) ==
    /\ db_call[c].pc = "add"
    /\ db_call[c].added = Len(db_call[c].batch)
    /\ db_call' = [db_call EXCEPT ![c].pc = "rollback"]
    /\ UNCHANGED <<server, current_data, data_lock, last_processed_data, has_processed,
                   pc, data_list, ref, total, op, resp, reply, clients, inbox, log,
                   requests, acq, sent, failed, late, payload_list, is_running, main_pc,
                   sim_pc, counter, sliced, frame, api_calls, sim_err, stopped,
                   after_stop, file, header, np_pc, df, result, tried, clock, runs,
                   db_table, db_calls, db_done>>

\* except: db.rollback(); print(...); raise  (the finally clause follows)
DbRollback(c) ==
    /\ db_call[c].pc = "rollback"
    /\ db_call' = [db_call EXCEPT ![c].pending = <<>>, ![c].exc = TRUE,
                                  ![c].pc = "close"]
    /\ UNCHANGED <<server, current_data, data_lock, last_processed_data, has_processed,
                   pc, data_list, ref, total, op, resp, reply, clients, inbox, log,
                   requests, acq, sent, failed, late, payload_list, is_running, main_pc,
                   sim_pc, counter, sliced, frame, api_calls, sim_err, stopped,
                   after_stop, file, header, np_pc, df, result, tried, clock, runs,
                   db_table, db_calls, db_done>>

\* finally: db.close(); the call returns its count or the exception leaves it.
DbClose(c) ==
    /\ db_call[c].pc = "close"
    /\ db_call' = [db_call EXCEPT ![c].open = FALSE, ![c].pending = <<>>,
                                  ![c].pc = IF db_call[c].exc THEN "raise"
                                                              ELSE "return"]
    /\ db_done' = db_done \cup {[id |-> db_call[c].id, batch |-> db_call[c].batch,
                                 raised |-> db_call[c].exc,
                                 count |-> db_call[c].count]}
    /\ UNCHANGED <<server, current_data, data_lock, last_processed_data, has_processed,
                   pc, data_list, ref, total, op, resp, reply, clients, inbox, log,
                   requests, acq, sent, failed, late, payload_list, is_running, main_pc,
                   sim_pc, counter, sliced, frame, api_calls, sim_err, stopped,
                   after_stop, file, header, np_pc, df, result, tried, clock, runs,
                   db_table, db_calls>>

\* upload_file: the 200 answer with the count, or the except clause and its
\* 500 answer.
UploadAnswer ==
    /\ db_call["upload"].pc \in {"return", "raise"}
    /\ db_call' = [db_call EXCEPT !["upload"] = NoCall]
    /\ UNCHANGED <<server, current_data, data_lock, last_processed_data, has_processed,
                   pc, data_list, ref, total, op, resp, reply, clients, inbox, log,
                   requests, acq, sent, failed, late, payload_list, is_running, main_pc,
                   sim_pc, counter, sliced, frame, api_calls, sim_err, stopped,
                   after_stop, file, header, np_pc, df, result, tried, clock, runs,
                   db_table, db_calls, db_done>>

\* simulate_real_time_data: counter += 1; time.sleep(30); next iteration.
SimulateSaved ==
    /\ db_call["sim"].pc = "return"
    /\ db_call' = [db_call EXCEPT !["sim"] = NoCall]
    /\ UNCHANGED <<server, current_data, data_lock, last_processed_data, has_processed,
                   pc, data_list, ref, total, op, resp, reply, clients, inbox, log,
                   requests, acq, sent, failed, late, payload_list, is_running, main_pc,
                   sim_pc, counter, sliced, frame, api_calls, sim_err, stopped,
                   after_stop, file, header, np_pc, df, result, tried, clock, runs,
                   db_table, db_calls, db_done>>

\* simulate_real_time_data: except Exception: print(...); time.sleep(120);
\* next iteration.
SimulateCaught ==
    /\ db_call["sim"].pc = "raise"
    /\ db_call' = [db_call EXCEPT !["sim"] = NoCall]
    /\ UNCHANGED <<server, current_data, data_lock, last_processed_data, has_processed,
                   pc, data_list, ref, total, op, resp, reply, clients, inbox, log,
                   requests, acq, sent, failed, late, payload_list, is_running, main_pc,
                   sim_pc, counter, sliced, frame, api_calls, sim_err, stopped,
                   after_stop, file, header, np_pc, df, result, tried, clock, runs,
                   db_table, db_calls, db_done>>

NextDb ==
    \/ \E batch \in DbBatches : UploadFile(batch)
    \/ SimulateSave
    \/ \E c \in DbCallers : DbAdd(c)
    \/ \E c \in DbCallers : DbConvertRaises(c)
    \/ \E c \in DbCallers : DbCommit(c)
    \/ \E c \in DbCallers : DbCommitRaises(c)
    \/ \E c \in DbCallers : DbRollback(c)
    \/ \E c \in DbCallers : DbClose(c)
    \/ UploadAnswer
    \/ SimulateSaved
    \/ SimulateCaught

InitDb == Init /\ server = "database"

SpecDb == InitDb /\ [][NextDb]_vars

--------------------------------------------------------------------------
\* Properties

\* Position of a record in the history of appends (0: never appended).
Position(x) ==
    IF \E i \in 1..Len(log) : log[i] = x
      THEN CHOOSE i \in 1..Len(log) : log[i] = x
      ELSE 0

\* How recent the buffer state carried by a payload is: the position in the
\* history of its newest record.
Ver(d) == IF d = <<>> THEN 0 ELSE Position(d[Len(d)])

\* C1: whenever no call of add_data_to_stream is inside the with block (every
\* call made so far has left it), the buffer holds at most max_records records.
C1_BoundInvariant ==
    data_lock = NoThread => Len(current_data) <= MaxRecords

\* C1 witness: a call has returned after the buffer overflowed and was cut
\* back to exactly max_records.
C1_Witness ==
    /\ data_lock = NoThread
    /\ Len(log) > MaxRecords
    /\ Len(current_data) = MaxRecords
    /\ \E p \in Producers : pc[p] = "done" /\ resp[p] = "ok"

\* C2: after the batches appended so far (in the order of their appends), the
\* buffer is exactly the last min(max_records, total) records of their
\* concatenation, in order: survivors of an earlier batch precede those of a
\* later one and the last element is the newest record appended.
C2_RecencyOrder ==
    data_lock = NoThread =>
        /\ current_data = LastN(log, MaxRecords)
        /\ \A i, j \in 1..Len(current_data) :
               i < j => Position(current_data[i]) < Position(current_data[j])
        /\ log # <<>> => current_data[Len(current_data)] = log[Len(log)]

\* C2 witness: more records than the cap were appended by several batches and
\* the buffer holds survivors of two different batches.
C2_Witness ==
    /\ data_lock = NoThread
    /\ Len(log) > MaxRecords + 1
    /\ Len(current_data) = MaxRecords
    /\ current_data[1][1] # current_data[MaxRecords][1]

\* C3: under every interleaving of the producers, a call adds its batch as one
\* contiguous block behind what the buffer held when the call took the lock,
\* and when the call leaves the with block the buffer is the last max_records
\* of that: nothing is lost except by oldest-first eviction.
C3_NoLostAppend ==
    \A p \in Producers :
        /\ pc[p] = "extend" => current_data = acq[p]
        /\ pc[p] = "trunc" => current_data = acq[p] \o data_list[p].recs
        /\ pc[p] = "unlock" =>
               /\ current_data = LastN(acq[p] \o data_list[p].recs, MaxRecords)
               /\ Len(current_data) <= MaxRecords

\* C3 witness: one producer is about to leave the with block after an append
\* that evicted records, while the other producer waits for the lock.
C3_Witness ==
    \E p, q \in Producers :
        /\ p # q
        /\ pc[p] = "unlock"
        /\ pc[q] = "lock"
        /\ acq[p] # <<>>
        /\ Len(acq[p]) + Len(data_list[p].recs) > MaxRecords

\* C4: what a lock-holding reader returns (the /api/data body, the Dash data
\* store, the payload of the connect and request_data handlers) is the buffer
\* as the completed appends left it: never longer than max_records, never an
\* extended but not yet truncated list, and with a matching record count.
C4_SnapshotAtomicity ==
    /\ \A r \in Readers :
           reply[r].kind # "none" =>
               /\ reply[r].data = LastN(reply[r].h_log, MaxRecords)
               /\ reply[r].total = Len(reply[r].data)
    /\ \A s \in Subs :
           (pc[s] = "h_unlock" /\ inbox[s].src \in {"connect", "request"}) =>
               /\ inbox[s].data = LastN(log, MaxRecords)
               /\ inbox[s].total = Len(inbox[s].data)

\* C4 witness: a reader built its body after the buffer overflowed, while a
\* producer is waiting for the lock with its batch.
C4_Witness ==
    \E r \in Readers :
        /\ pc[r] = "r_unlock"
        /\ reply[r].kind = "get_data"
        /\ Len(reply[r].h_log) > MaxRecords
        /\ \E p \in Producers : pc[p] = "lock" /\ data_list[p].recs # <<>>

\* C5 (as claimed): every payload broadcast by add_data_to_stream holds at most
\* max_records records and its total_records equals its number of records.
C5_PayloadConsistent ==
    \A s \in Subs :
        inbox[s].src = "stream" =>
            /\ Len(inbox[s].data) <= MaxRecords
            /\ inbox[s].total = Len(inbox[s].data)

\* C6: an operation that reports success has made exactly one broadcast after
\* its append, and that broadcast gives every connected client a payload that
\* contains every record of the appended batch still in the buffer.
C6_PublishAfterAppend ==
    /\ [](\A p \in Producers :
              (pc[p] = "done" /\ resp[p] = "ok") => sent[p] = 1)
    /\ [][\A p \in Producers :
              (pc[p] = "emit_send" /\ resp'[p] = "ok") =>
                  /\ sent'[p] = sent[p] + 1
                  /\ Range(data_list[p].recs) \subseteq Range(log)
                  /\ \A s \in clients :
                         /\ inbox'[s].src = "stream"
                         /\ (Range(data_list[p].recs) \cap Range(current_data))
                                \subseteq Range(inbox'[s].data)]_vars

\* C6 witness: an upload was answered as successful after one broadcast that
\* reached a connected client, and part of what was appended has been evicted.
C6_Witness ==
    \E p \in Producers :
        /\ pc[p] = "done"
        /\ op[p] = "upload"
        /\ resp[p] = "ok"
        /\ sent[p] = 1
        /\ Len(log) > MaxRecords
        /\ \E s \in clients : inbox[s].src = "stream" /\ inbox[s].data # <<>>

\* C7 (as claimed): the buffer states broadcast to one client never go
\* backwards: a later stream payload is at least as recent as the one before.
C7_BroadcastOrder ==
    [][\A s \in Subs :
           (inbox[s].src = "stream" /\ inbox'[s].src = "stream") =>
               Ver(inbox'[s].data) >= Ver(inbox[s].data)]_vars

\* C8 (as claimed): a client that connected when the buffer already held
\* records has, once its connect handling is over, been sent a snapshot.
C8_LateJoinCatchUp ==
    \A s \in Subs :
        (pc[s] = "in" /\ late[s]) => inbox[s].src # "none"

\* C9: an upload whose processing raised is answered with an error, never
\* enters add_data_to_stream and broadcasts nothing; the step that fails
\* leaves the buffer, the history of appends and every client untouched.
C9_FailedNormalization ==
    /\ [](\A p \in Producers :
              failed[p] =>
                  /\ pc[p] = "done"
                  /\ resp[p] = "error"
                  /\ sent[p] = 0
                  /\ data_lock # p
                  /\ data_list[p].recs = <<>>)
    /\ [][\A p \in Producers :
              (failed'[p] /\ requests' # requests) =>
                  UNCHANGED <<current_data, log, inbox, data_lock>>]_vars

\* C9 witness: an upload failed in processing while the buffer held records
\* and a client was connected.
C9_Witness ==
    \E p \in Producers :
        /\ failed[p]
        /\ current_data # <<>>
        /\ clients # {}

\* C10 (as claimed): an upload whose file was processed and whose batch was
\* appended is answered as successful, also when the broadcast raised.
C10_SendFailureContained ==
    \A p \in Producers :
        (pc[p] = "done" /\ op[p] = "upload" /\ ~failed[p] /\ resp[p] # "rejected")
            => resp[p] = "ok"

--------------------------------------------------------------------------
\* The simulation producer

\* C12 (as claimed): every record the simulation thread generates is appended
\* to the buffer the upload handlers append to, and its broadcast reaches every
\* client connected to the server that accepts uploads.
C12_SharedProducer ==
    /\ [](\A i \in 1..Len(payload_list) :
            payload_list[i] \in Range(log) \cup Range(SampleRecords(MaxBatch)))
    /\ [][\A t \in SimThreads :
            (sim_pc[t] = "emit" /\ sim_pc'[t] = "sleep" /\ ~sim_err'[t])
               => \A s \in clients : inbox'[s] = RealTimePayload(t)]_vars

\* C13 (as claimed): once stop_simulation was called, a producer thread that
\* reaches its loop check leaves the loop, and it appends at most one further
\* record after the call.
C13_CooperativeStop ==
    /\ [](\A t \in SimThreads : stopped[t] => after_stop[t] <= 1)
    /\ [][\A t \in SimThreads :
            (stopped[t] /\ sim_pc[t] = "check" /\ sim_pc'[t] # "check")
               => sim_pc'[t] = "exited"]_vars

\* C14 (as claimed): an iteration of the producer loop in which an error was
\* raised ends with the back-off sleep, never with the normal sleep, and a
\* thread leaves the loop only at the loop check with the flag cleared.
C14_ProducerResilience ==
    [][\A t \in SimThreads :
         /\ (sim_pc[t] = "sleep" /\ sim_pc'[t] = "check") => ~sim_err[t]
         /\ (sim_pc[t] # "exited" /\ sim_pc'[t] = "exited")
               => (sim_pc[t] = "check" /\ ~is_running)]_vars

--------------------------------------------------------------------------
\* The normalizer

\* The record source the rule names for a document: the key of the selected
\* array (NoKey for a top-level array or a single record) and the number of
\* records.
ClaimedSource(doc) ==
    LET fields == doc.fields
        arrays == {i \in 1..Len(fields) : fields[i].kind = "array"}
        common == {j \in 1..Len(CommonKeys) :
                     \E i \in arrays : fields[i].key = CommonKeys[j]}
    IN  IF doc.kind = "array" THEN [key |-> NoKey, count |-> doc.len]
        ELSE IF \A i \in 1..Len(fields) : fields[i].kind = "scalar"
          THEN [key |-> NoKey, count |-> 1]
        ELSE IF common # {}
          THEN LET j == CHOOSE j \in common : \A k \in common : j <= k
               IN  [key |-> CommonKeys[j], count |-> FieldLen(fields, CommonKeys[j])]
        ELSE IF arrays # {}
          THEN LET i == CHOOSE i \in arrays : \A k \in arrays :
                            \/ fields[i].len > fields[k].len
                            \/ fields[i].len = fields[k].len /\ i <= k
               IN  [key |-> fields[i].key, count |-> fields[i].len]
        ELSE [key |-> NoKey, count |-> 1]

\* C15 (as claimed): for every JSON array or object the record source chosen
\* by _process_json_file is the one the rule names: the top-level array, the
\* single flat object, the first of data, items, records, results, rows, entries
\* that is an array, else the array field with the most elements (first key on
\* ties), else one flattened record.
C15_RecordSource ==
    (np_pc = "done" /\ result.status = "ok")
        => [key |-> result.key, count |-> result.count] = ClaimedSource(file)

\* C16: read_csv is called with utf-8, latin-1, cp1252 in that order; a later
\* candidate is tried only after every earlier one failed to decode the file;
\* the encoding used is the first that decodes the file, with the text that
\* encoding gives; when no candidate decodes a non-empty file the call raises.
C16_EncodingFallback ==
    LET order == <<"utf-8", "latin-1", "cp1252">>
        decodes == {i \in 1..3 : ~DecodeFails(order[i], file)}
        first == CHOOSE i \in decodes : \A k \in decodes : i <= k
    IN  /\ \A i \in 1..Len(tried) : tried[i] = order[i]
        /\ \A i \in 1..(Len(tried) - 1) : DecodeFails(tried[i], file)
        /\ (np_pc = "done" /\ file # <<>> /\ decodes # {})
              => /\ result.status = "ok"
                 /\ result.encoding = order[first]
                 /\ result.text = Decode(order[first], file)
        /\ (np_pc = "done" /\ file # <<>> /\ decodes = {})
              => result.status = "ValueError"

\* C16 witness: utf-8 failed on the file and the latin-1 reading was returned.
C16_Witness ==
    /\ np_pc = "done"
    /\ tried = <<"utf-8", "latin-1">>
    /\ result.status = "ok"
    /\ result.encoding = "latin-1"

\* C17 (as claimed): numeric inference converts a column of dtype object if
\* and only if more than half of its non-null values parse as numbers.
C17_NumericThreshold ==
    [][np_pc = "numeric" =>
         \A c \in 1..Len(df.cols) :
            df.cols[c].dtype = "object" =>
               LET cells == df.cols[c].cells
                   nonnull == NotNaCount(cells)
                   numeric == NotNaCount(ToNumericCoerce(cells))
               IN  (df'.cols[c].dtype = "number") <=> (2 * numeric > nonnull)]_vars

\* C18 (as claimed): in a returned batch all non-null values of one column
\* have the same type.
C18_TypeUniformity ==
    np_pc = "done" =>
        \A c \in 1..Len(df.cols) :
           \A i, j \in 1..df.nrows :
              (df.cols[c].cells[i] # "null" /\ df.cols[c].cells[j] # "null")
                 => CellType(df.cols[c].cells[i]) = CellType(df.cols[c].cells[j])

\* C19 (as claimed): timestamp parsing, which runs before numeric inference,
\* turns a column whose name contains a datetime keyword and that holds a
\* value that parses into a timestamp column: every value that parses becomes
\* a timestamp and every other cell becomes null.
C19_TimestampInference ==
    [][np_pc = "datetime" =>
         \A c \in 1..Len(df.cols) :
            (/\ HasDatetimeKeyword(df.cols[c].name)
             /\ "datetxt" \in Range(df.cols[c].cells)) =>
               /\ df'.cols[c].dtype = "timestamp"
               /\ \A i \in 1..df.nrows :
                     df'.cols[c].cells[i] =
                        IF df.cols[c].cells[i] = "datetxt" THEN "ts" ELSE "null"]_vars

\* Number of records, field names in order and the type of every field.
Shape(d) ==
    [n |-> d.nrows,
     names |-> [c \in 1..Len(d.cols) |-> d.cols[c].name],
     types |-> [c \in 1..Len(d.cols) |-> d.cols[c].dtype],
     meta |-> d.meta]

FilledRows == {i \in 1..Len(file) : file[i] # <<"null", "null">>}

\* The synthetic fields and the shape of a returned batch: both fields are
\* attached, _record_id counts 0, 1, ..., n-1 over the rows, every column has
\* one cell per row and no original column is entirely empty.
C21_Attached ==
    /\ df.meta
    /\ df.processed_at = clock
    /\ df.record_id = [i \in 1..df.nrows |-> i - 1]
    /\ \A c \in 1..Len(df.cols) :
          /\ Len(df.cols[c].cells) = df.nrows
          /\ \E i \in 1..df.nrows : df.cols[c].cells[i] # "null"

\* C21 as stated: on success every record carries both synthetic fields,
\* _record_id is 0..n-1 in row order over the rows left after the empty rows
\* were dropped, _processed_at is the same for the batch, and no returned row
\* and no original column is entirely empty.
C21_CleaningAsStated ==
    (np_pc = "done" /\ result.status = "ok") =>
        /\ C21_Attached
        /\ \A i \in 1..df.nrows :
              \E c \in 1..Len(df.cols) : df.cols[c].cells[i] # "null"

\* C21 amended: as stated, but for the rows: the returned rows are the input
\* rows that held at least one value in the input (n is their number); such a
\* row may be returned with every original field null after type inference.
C21_Cleaning ==
    (np_pc = "done" /\ result.status = "ok") =>
        /\ C21_Attached
        /\ df.nrows = Cardinality(FilledRows)

\* A batch is returned from which an empty row and an empty column were
\* dropped and which still has two rows.
C21_Witness ==
    /\ np_pc = "done"
    /\ result.status = "ok"
    /\ df.nrows >= 2
    /\ df.nrows < Len(file)
    /\ Len(df.cols) = 1


\* C22: when a cleaning or type-inference step fails, process_file raises: it
\* returns no batch without the synthetic fields and leaves
\* last_processed_data as it was.
C22_FailureRaises ==
    /\ [](np_pc = "done" /\ result.status = "ok" => df.meta)
    /\ [][np_pc = "clean_failed" =>
            /\ result'.status # "ok"
            /\ last_processed_data' = last_processed_data]_vars

\* C27: the distinct column names of a file stay distinct when canonicalized,
\* and cleaning attaches the synthetic fields.
C27_UniqueNames ==
    /\ \A b, c \in 1..Len(df.cols) : df.cols[b].name = df.cols[c].name => b = c
    /\ np_pc = "done" => df.meta


--------------------------------------------------------------------------
\* The sample route

\* C23: the records broadcast for a loaded sample went into the stream buffer
\* through the append operation.
C23_SampleFeedsBuffer ==
    \A s \in Subs :
        inbox[s].src = "sample_data" =>
            \A i \in 1..Len(inbox[s].data) : inbox[s].data[i] \in Range(log)


--------------------------------------------------------------------------
\* Lock discipline

\* C24: a thread holds data_lock only while it extends and truncates the
\* buffer or copies or serialises it (so normalization is over before the
\* lock is taken and every exit path has released it), and the thread whose
\* step delivers a 'new_data' message does not hold data_lock in that step.
C24_LockDiscipline ==
    /\ [](\A t \in Threads :
            data_lock = t =>
                pc[t] \in {"extend", "trunc", "unlock", "gd_data", "gd_len",
                           "gd_json", "ds_copy", "r_unlock", "connect_emit",
                           "request_emit", "h_unlock"})
    /\ [][(\E s \in Subs : inbox'[s] # inbox[s] /\ inbox'[s] # NoMsg) =>
            \A t \in Threads : pc'[t] # pc[t] => data_lock # t]_vars


--------------------------------------------------------------------------
\* The buffer of WebSocketServer

\* A thread is between the append and the end of the truncation of add_data.
InAddData(t) == sim_pc[t] \in {"trunc_check", "slice", "rebind"}

\* The counters of the records a thread has appended so far.
Appended(t) ==
    {c \in 0..MaxSimRecords :
        \/ c < counter[t]
        \/ c = counter[t] /\ sim_pc[t] \in {"trunc_check", "slice", "rebind",
                                            "frame", "emit"}}

\* C25: when no add_data call is under way, payload_list holds at most
\* MaxRecords records and no appended record is missing but by oldest-first
\* eviction: while a record of the sample file (loaded before any thread
\* started) or an older record of a thread is in the list, every record that
\* thread appended later is in it too.
C25_ConcurrentAddData ==
    (/\ \A t \in SimThreads : ~InAddData(t)
     /\ \E t \in SimThreads : counter[t] > 0) =>
        /\ Len(payload_list) <= MaxRecords
        /\ \A t \in SimThreads : \A c \in Appended(t) :
              (\E i \in 1..Len(payload_list) :
                  \/ payload_list[i][1] = 200
                  \/ payload_list[i][1] = SimTag[t] /\ payload_list[i][2] < c)
              => <<SimTag[t], c>> \in Range(payload_list)

\* C26: payload_list never holds more than MaxRecords records outside a
\* running add_data, directly after load_sample_data included, and no payload
\* sent to a client holds more.
C26_PayloadListBound ==
    /\ (\A t \in SimThreads : ~InAddData(t)) => Len(payload_list) <= MaxRecords
    /\ \A s \in Subs : Len(inbox[s].data) <= MaxRecords

\* C28: at no time are two simulate_data_stream threads inside add_data or
\* on their way into it.
C28_SingleProducer ==
    Cardinality({t \in SimThreads :
                   sim_pc[t] \in {"append", "trunc_check", "slice", "rebind",
                                  "frame", "emit"}}) <= 1


--------------------------------------------------------------------------
\* The request_data event

--------------------------------------------------------------------------
\* The persistent sink

\* The rows of the table that a call stored.
Stored(id) == Cardinality({i \in 1..Len(db_table) : db_table[i][1] = id})

\* C30: a save_data_to_db call that ended has stored one row per record and
\* returned their number, or has raised and stored nothing; a call that has
\* not committed has stored nothing; the session of a call that ended is
\* closed; and an exception that reaches the simulation thread is caught
\* there, the thread going on with its next iteration.
C30_AllOrNothing ==
    /\ [](/\ \A d \in db_done :
                IF d.raised THEN Stored(d.id) = 0
                ELSE Stored(d.id) = Len(d.batch) /\ d.count = Len(d.batch)
          /\ \A c \in DbCallers :
                /\ db_call[c].pc \in {"add", "rollback"} => Stored(db_call[c].id) = 0
                /\ db_call[c].pc \in {"idle", "return", "raise"} => ~db_call[c].open)
    /\ [][db_call["sim"].pc = "raise" /\ db_call'["sim"] # db_call["sim"] =>
            db_call'["sim"].pc = "idle"]_vars

\* A batch whose second record does not convert was refused after its first
\* record had been added, a batch of two records was stored, and the
\* simulation thread is past a failed save.
C30_Witness ==
    /\ \E d \in db_done : d.raised /\ d.batch = <<"ok", "bad">>
    /\ \E d \in db_done : ~d.raised /\ Len(d.batch) = 2
    /\ \E d \in db_done : d.raised /\ d.batch = <<"ok">>
    /\ db_call["sim"].pc = "idle"

==========================================================================
